---- MODULE Spec2Model ----
(***************************************************************************)
(* A model of the HighRust transpiler (highrust-transpiler): the AST, the  *)
(* ownership inference (ownership.rs), the lowering to IR (lowering.rs),   *)
(* the Rust emitter (codegen.rs) and the orchestrator (lib.rs).            *)
(*                                                                         *)
(* Rust values are modelled as records tagged by a "kind" field, HashSets  *)
(* as sets, Vecs as sequences, Strings as TLA+ strings, Option::None as    *)
(* the record None.                                                        *)
(***************************************************************************)
EXTENDS Integers, Sequences, FiniteSets, TLC

VARIABLES
    pc,            \* position of the running entry point
    input_file,    \* what is stored at the input path (None: unreadable)
    output_file,   \* what is stored at the output path (None: no such file)
    source,        \* the source text handed to transpile_source
    ast,           \* the Module under analysis / lowering
    analysis,      \* the OwnershipAnalysisResult of analyze_module
    body_context,  \* the OwnershipContext in which the last body was analysed
    ir,            \* the result of lower_module
    cg,            \* the CodegenContext
    rust_code,     \* the result of generate_rust_code / generate_expr
    result,        \* the value returned by the entry point
    stages,        \* history: the pipeline stages entered, in order
    context,       \* an OwnershipContext driven through its methods
    method         \* a method / variable name under classification

vars == << pc, input_file, output_file, source, ast, analysis, body_context,
           ir, cg, rust_code, result, stages, context, method >>

None == [kind |-> "None"]

\* Sequencing of two steps: v is computed to the end, then F goes on with it.
Then(v, F(_)) == CHOOSE r \in { F(x) : x \in {v} } : TRUE

(***************************************************************************)
(* ast.rs                                                                  *)
(***************************************************************************)
Span(a, b) == [start |-> a, end |-> b]

Lit(k, v) == [kind |-> k, val |-> v]

TypeNamed(name, params) == [kind |-> "Named", name |-> name, params |-> params]

PatVariable(name) == [kind |-> "Variable", name |-> name]

PatTuple(pats) == [kind |-> "Tuple", pats |-> pats]

ExprLiteral(lit, span) == [kind |-> "Literal", lit |-> lit, span |-> span]

ExprVariable(name, span) == [kind |-> "Variable", name |-> name, span |-> span]

ExprCall(func, args, span) ==
    [kind |-> "Call", func |-> func, args |-> args, span |-> span]

ExprFieldAccess(base, field, span) ==
    [kind |-> "FieldAccess", base |-> base, field |-> field, span |-> span]

Block(stmts) == [stmts |-> stmts]

ExprBlock(block) == [kind |-> "Block", block |-> block]

StmtLet(pattern, value, ty, span) ==
    [kind |-> "Let", pattern |-> pattern, value |-> value, ty |-> ty, span |-> span]

StmtExpr(expr) == [kind |-> "Expr", expr |-> expr]

StmtReturn(expr) == [kind |-> "Return", expr |-> expr]

StmtIf(cond, then_branch, else_branch) ==
    [kind |-> "If", cond |-> cond, then_branch |-> then_branch,
     else_branch |-> else_branch]

StmtWhile(cond, body) == [kind |-> "While", cond |-> cond, body |-> body]

StmtFor(pattern, iterable, body) ==
    [kind |-> "For", pattern |-> pattern, iterable |-> iterable, body |-> body]

Param(name, ty) == [name |-> name, ty |-> ty]

FunctionDef(name, params, ret_type, body) ==
    [kind |-> "Function", name |-> name, params |-> params,
     ret_type |-> ret_type, body |-> body]

Module(items) == [items |-> items]

(***************************************************************************)
(* Strings                                                                 *)
(***************************************************************************)
starts_with(s, prefix) ==
    /\ Len(s) >= Len(prefix)
    /\ SubSeq(s, 1, Len(prefix)) = prefix

(***************************************************************************)
(* ownership.rs: OwnershipAnalysisResult and OwnershipContext              *)
(***************************************************************************)
EmptyAnalysis ==
    [mutable_vars |-> {}, immut_borrowed_vars |-> {}, mut_borrowed_vars |-> {},
     moved_vars |-> {}, cloned_vars |-> {}, lifetime_params |-> << >>,
     borrow_graph |-> {}, string_converted_vars |-> {},
     string_converted_exprs |-> {}]

\* A VariableInfo together with the key it is stored under.
VariableInfo(name, ownership, mutability) ==
    [name |-> name, ownership |-> ownership, mutability |-> mutability]

\* OwnershipContext::new
NewContext ==
    [variables |-> {}, parent |-> None, scope_depth |-> 0,
     analysis_result |-> EmptyAnalysis]

\* OwnershipContext::with_parent
with_parent(parent) ==
    [variables |-> {}, parent |-> parent, scope_depth |-> parent.scope_depth + 1,
     analysis_result |-> parent.analysis_result]

\* HashMap::insert on context.variables
declare_variable(ctx, info) ==
    [ctx EXCEPT !.variables =
        {b \in ctx.variables : b.name # info.name} \cup {info}]

HasLocal(ctx, name) == \E b \in ctx.variables : b.name = name

Local(ctx, name) == CHOOSE b \in ctx.variables : b.name = name

RECURSIVE lookup_variable(_, _)
lookup_variable(ctx, name) ==
    IF HasLocal(ctx, name) THEN Local(ctx, name)
    ELSE IF ctx.parent # None THEN lookup_variable(ctx.parent, name)
    ELSE None

\* lookup_variable_mut followed by an assignment to the ownership field
RECURSIVE SetOwnership(_, _, _)
SetOwnership(ctx, name, o) ==
    IF HasLocal(ctx, name)
    THEN declare_variable(ctx, [Local(ctx, name) EXCEPT !.ownership = o])
    ELSE IF ctx.parent # None
    THEN [ctx EXCEPT !.parent = SetOwnership(ctx.parent, name, o)]
    ELSE ctx

\* lookup_variable_mut followed by an assignment to the mutability field
RECURSIVE SetMutability(_, _, _)
SetMutability(ctx, name, m) ==
    IF HasLocal(ctx, name)
    THEN declare_variable(ctx, [Local(ctx, name) EXCEPT !.mutability = m])
    ELSE IF ctx.parent # None
    THEN [ctx EXCEPT !.parent = SetMutability(ctx.parent, name, m)]
    ELSE ctx

is_borrowed(ctx, name) ==
    LET info == lookup_variable(ctx, name)
    IN  info # None /\ info.ownership \in {"BorrowedImmut", "BorrowedMut"}

AddMutable(ctx, name) ==
    [ctx EXCEPT !.analysis_result.mutable_vars = @ \cup {name}]

record_borrow(ctx, var_name, is_mutable) ==
    LET c1 == SetOwnership(ctx, var_name,
                  IF is_mutable THEN "BorrowedMut" ELSE "BorrowedImmut")
    IN  IF is_mutable
        THEN [c1 EXCEPT !.analysis_result.mut_borrowed_vars = @ \cup {var_name}]
        ELSE [c1 EXCEPT !.analysis_result.immut_borrowed_vars = @ \cup {var_name}]

(***************************************************************************)
(* ownership.rs: OwnershipInference                                        *)
(***************************************************************************)
MutatingMethodNames ==
    {"push", "pop", "insert", "remove", "clear", "resize", "extend", "set",
     "push_str", "push_back", "append", "insert_str", "truncate", "retain"}

is_mutating_method_name(name) == name \in MutatingMethodNames

is_borrowing_function(name) == name = "ref" \/ name = "borrow"

is_mutable_borrowing_function(name) == name = "ref_mut" \/ name = "borrow_mut"

has_potential_mutation(name) == name = "x" \/ name = "v"

RECURSIVE analyze_pattern(_, _)
RECURSIVE analyze_patterns(_, _)
analyze_pattern(pattern, ctx) ==
    CASE pattern.kind = "Variable" ->
            declare_variable(ctx,
                VariableInfo(pattern.name, "Owned",
                    IF pattern.name = "x" \/ pattern.name = "v"
                    THEN "Mutable" ELSE "Unknown"))
      [] pattern.kind = "Tuple" -> analyze_patterns(pattern.pats, ctx)
      [] OTHER -> ctx

analyze_patterns(pats, ctx) ==
    IF pats = << >> THEN ctx
    ELSE analyze_patterns(Tail(pats), analyze_pattern(Head(pats), ctx))

\* The (spans, vars) that check_string_conversion_need adds for one expression.
RECURSIVE check_string_conversion_need(_)
RECURSIVE check_string_conversion_args(_)
check_string_conversion_need(expr) ==
    CASE expr.kind = "Literal" /\ expr.lit.kind = "String" ->
            [spans |-> {expr.span}, vars |-> {}]
      [] expr.kind = "Variable" -> [spans |-> {}, vars |-> {expr.name}]
      [] expr.kind = "Call" ->
            LET rest == check_string_conversion_args(expr.args)
            IN  [spans |-> {expr.span} \cup rest.spans, vars |-> rest.vars]
      [] OTHER -> [spans |-> {}, vars |-> {}]

check_string_conversion_args(args) ==
    IF args = << >> THEN [spans |-> {}, vars |-> {}]
    ELSE LET h == check_string_conversion_need(Head(args))
             t == check_string_conversion_args(Tail(args))
         IN  [spans |-> h.spans \cup t.spans, vars |-> h.vars \cup t.vars]

\* merge_context_results: the child's sets are added to the parent's.
merge_context_results(child, parent) ==
    LET c == child.analysis_result
    IN  [parent EXCEPT
            !.analysis_result.mutable_vars = @ \cup c.mutable_vars,
            !.analysis_result.immut_borrowed_vars = @ \cup c.immut_borrowed_vars,
            !.analysis_result.mut_borrowed_vars = @ \cup c.mut_borrowed_vars,
            !.analysis_result.moved_vars = @ \cup c.moved_vars,
            !.analysis_result.string_converted_vars = @ \cup c.string_converted_vars,
            !.analysis_result.string_converted_exprs = @ \cup c.string_converted_exprs]

RECURSIVE track_mutable_borrows(_, _)
RECURSIVE track_mutable_borrows_args(_, _)
track_mutable_borrows(expr, ctx) ==
    IF expr.kind = "Call"
    THEN LET f == expr.func
             hit == /\ f.kind = "FieldAccess"
                    /\ f.base.kind = "Variable"
                    /\ is_mutating_method_name(f.field)
                    /\ lookup_variable(ctx, f.base.name) # None
             c1 == IF hit
                   THEN LET n == f.base.name
                            a == SetMutability(ctx, n, "Mutable")
                            b == SetOwnership(a, n, "BorrowedMut")
                        IN  [b EXCEPT !.analysis_result.mut_borrowed_vars =
                                          @ \cup {n}]
                   ELSE ctx
         IN  track_mutable_borrows_args(expr.args, c1)
    ELSE ctx

track_mutable_borrows_args(args, ctx) ==
    IF args = << >> THEN ctx
    ELSE track_mutable_borrows_args(Tail(args),
             track_mutable_borrows(Head(args), ctx))

RECURSIVE detect_assignment_in_expr(_, _)
RECURSIVE detect_assignment_in_args(_, _)
RECURSIVE analyze_stmt(_, _)
RECURSIVE analyze_stmts(_, _)

detect_assignment_in_expr(expr, ctx) ==
    CASE expr.kind = "Call" ->
            LET f == expr.func
                args == expr.args
                c1 ==
                  IF f.kind = "FieldAccess"
                  THEN IF f.base.kind = "Variable" /\ is_mutating_method_name(f.field)
                       THEN AddMutable(SetMutability(ctx, f.base.name, "Mutable"),
                                       f.base.name)
                       ELSE ctx
                  ELSE IF f.kind = "Variable"
                  THEN IF is_borrowing_function(f.name) /\ args # << >>
                       THEN IF args[1].kind = "Variable"
                            THEN record_borrow(ctx, args[1].name, FALSE)
                            ELSE ctx
                       ELSE IF is_mutable_borrowing_function(f.name) /\ args # << >>
                       THEN IF args[1].kind = "Variable"
                            THEN AddMutable(
                                   SetMutability(
                                     record_borrow(ctx, args[1].name, TRUE),
                                     args[1].name, "Mutable"),
                                   args[1].name)
                            ELSE ctx
                       ELSE ctx
                  ELSE ctx
            IN  detect_assignment_in_args(args, c1)
      [] expr.kind = "Block" ->
            LET block_context == analyze_stmts(expr.block.stmts, with_parent(ctx))
            IN  merge_context_results(block_context, ctx)
      [] expr.kind = "FieldAccess" ->
            LET c1 == detect_assignment_in_expr(expr.base, ctx)
            IN  IF expr.base.kind = "Variable" /\ is_borrowed(c1, expr.base.name)
                THEN [c1 EXCEPT !.analysis_result.string_converted_exprs =
                                    @ \cup {expr.span}]
                ELSE c1
      [] OTHER -> ctx

detect_assignment_in_args(args, ctx) ==
    IF args = << >> THEN ctx
    ELSE Then(detect_assignment_in_expr(Head(args), ctx),
              LAMBDA c : detect_assignment_in_args(Tail(args), c))

analyze_stmt(stmt, ctx) ==
    CASE stmt.kind = "Let" ->
            LET isVar == stmt.pattern.kind = "Variable"
                \* a Let of a name that lookup_variable already finds
                c1 == IF isVar /\ lookup_variable(ctx, stmt.pattern.name) # None
                      THEN AddMutable(ctx, stmt.pattern.name)
                      ELSE ctx
                \* a declared type String
                need == check_string_conversion_need(stmt.value)
                c2 == IF stmt.ty # None /\ stmt.ty.kind = "Named"
                         /\ stmt.ty.name = "String"
                      THEN [c1 EXCEPT
                              !.analysis_result.string_converted_exprs =
                                  @ \cup need.spans,
                              !.analysis_result.string_converted_vars =
                                  @ \cup need.vars]
                      ELSE c1
                c3 == IF isVar
                      THEN LET a == IF has_potential_mutation(stmt.pattern.name)
                                    THEN AddMutable(c2, stmt.pattern.name)
                                    ELSE c2
                               b == detect_assignment_in_expr(stmt.value, a)
                           IN  IF stmt.pattern.name = "branch_test"
                               THEN AddMutable(b, "branch_value")
                               ELSE b
                      ELSE c2
                c4 == analyze_pattern(stmt.pattern, c3)
            IN  track_mutable_borrows(stmt.value, c4)
      [] stmt.kind = "Expr" ->
            detect_assignment_in_expr(stmt.expr,
                track_mutable_borrows(stmt.expr, ctx))
      [] stmt.kind = "Return" ->
            IF stmt.expr # None THEN track_mutable_borrows(stmt.expr, ctx)
            ELSE ctx
      [] stmt.kind = "If" ->
            LET c1 == detect_assignment_in_expr(stmt.cond, ctx)
                \* branch_context = context.clone(): both branches run in it
                b1 == analyze_stmts(stmt.then_branch.stmts, c1)
                b2 == IF stmt.else_branch # None
                      THEN analyze_stmts(stmt.else_branch.stmts, b1)
                      ELSE b1
            IN  [c1 EXCEPT !.analysis_result.mutable_vars =
                              @ \cup b2.analysis_result.mutable_vars]
      [] stmt.kind = "While" ->
            analyze_stmts(stmt.body.stmts,
                detect_assignment_in_expr(stmt.cond, ctx))
      [] stmt.kind = "For" ->
            LET c1 == detect_assignment_in_expr(stmt.iterable, ctx)
                l0 == analyze_pattern(stmt.pattern, with_parent(c1))
                loop_context == analyze_stmts(stmt.body.stmts, l0)
            IN  merge_context_results(loop_context, c1)
      [] OTHER -> ctx

analyze_stmts(stmts, ctx) ==
    IF stmts = << >> THEN ctx
    ELSE Then(analyze_stmt(Head(stmts), ctx),
              LAMBDA c : analyze_stmts(Tail(stmts), c))

analyze_param(param, ctx) ==
    declare_variable(ctx, VariableInfo(param.name, "Owned", "Immutable"))

RECURSIVE analyze_params(_, _)
analyze_params(params, ctx) ==
    IF params = << >> THEN ctx
    ELSE analyze_params(Tail(params), analyze_param(Head(params), ctx))

setup_test_function_context(func_name, ctx) ==
    CASE func_name = "test_string_conversion" ->
            [ctx EXCEPT
                !.analysis_result.string_converted_vars = @ \cup {"s"},
                !.analysis_result.string_converted_exprs = @ \cup {Span(0, 0)}]
      [] func_name \in {"test_variable_reassignment", "test_reassign",
                        "test_branch_mutability", "test_branch_mutation"} ->
            AddMutable(declare_variable(ctx, VariableInfo("x", "Owned", "Mutable")),
                       "x")
      [] func_name \in {"test_method_mutation", "test_mutable_borrow"} ->
            [declare_variable(ctx, VariableInfo("v", "BorrowedMut", "Mutable"))
                EXCEPT !.analysis_result.mutable_vars = @ \cup {"v"},
                       !.analysis_result.mut_borrowed_vars = @ \cup {"v"}]
      [] func_name = "test_immutable_borrow" ->
            [declare_variable(ctx, VariableInfo("s", "BorrowedImmut", "Immutable"))
                EXCEPT !.analysis_result.immut_borrowed_vars = @ \cup {"s"}]
      [] func_name = "test_move_inference" ->
            [declare_variable(ctx, VariableInfo("s", "Moved", "Immutable"))
                EXCEPT !.analysis_result.moved_vars = @ \cup {"s"}]
      [] func_name = "test_nested_borrows" ->
            [ctx EXCEPT
                !.analysis_result.immut_borrowed_vars = @ \cup {"view", "first"},
                !.analysis_result.borrow_graph =
                    {<<"data", <<"view">> >>, <<"view", <<"first">> >>}]
      [] func_name = "test_temporary_borrow" ->
            [ctx EXCEPT
                !.analysis_result.mutable_vars = @ \cup {"data"},
                !.analysis_result.immut_borrowed_vars = @ \cup {"data"}]
      [] OTHER -> ctx

\* The context in which analyze_function declares the parameters.
FunctionContext(func, ctx) ==
    analyze_params(func.params,
        IF starts_with(func.name, "test_")
        THEN setup_test_function_context(func.name, ctx)
        ELSE ctx)

\* The local body_context of analyze_function after the body's statements.
FunctionBodyContext(func, ctx) ==
    analyze_stmts(func.body.stmts, with_parent(FunctionContext(func, ctx)))

\* An analyze_function that merges what the body's context has recorded back
\* into the module's context
analyze_functionMerging(func, ctx) ==
    merge_context_results(FunctionBodyContext(func, ctx), FunctionContext(func, ctx))

\* analyze_function: body_context is dropped on return; what remains is ctx
\* with the test set-up and the parameters.
analyze_function(func, ctx) == FunctionContext(func, ctx)

RECURSIVE analyze_items(_, _)
analyze_items(items, ctx) ==
    IF items = << >> THEN ctx
    ELSE analyze_items(Tail(items),
             IF Head(items).kind = "Function"
             THEN analyze_function(Head(items), ctx)
             ELSE ctx)

\* <OwnershipInference as OwnershipTracker>::analyze_module
tracker_analyze_module(module) ==
    analyze_items(module.items, NewContext).analysis_result

\* OwnershipInference::analyze_module
analyze_module(module) ==
    IF \E i \in 1..Len(module.items) :
           /\ module.items[i].kind = "Function"
           /\ module.items[i].name \in {"test_reassign", "test_branch_mutation"}
    THEN [EmptyAnalysis EXCEPT !.mutable_vars = {"x"}]
    ELSE tracker_analyze_module(module)

(***************************************************************************)
(* lowering.rs                                                             *)
(***************************************************************************)
Ok(v) == [kind |-> "Ok", value |-> v]

Err(e) == [kind |-> "Err", error |-> e]

UnsupportedFeature(msg) == [kind |-> "UnsupportedFeature", msg |-> msg]

IsOk(r) == r.kind = "Ok"

\* The ? operator: an Err is returned as it is, an Ok value goes on to F.
AndThen(r, F(_)) == IF IsOk(r) THEN F(r.value) ELSE r

\* Result::unwrap_or
unwrap_or(r, default) == IF IsOk(r) THEN r.value ELSE default

LoweredNamed(name, params) ==
    [kind |-> "Named", name |-> name, params |-> params]

RECURSIVE lower_type(_)
RECURSIVE lower_types(_)
lower_type(ty) ==
    CASE ty.kind = "Named" ->
            AndThen(lower_types(ty.params),
                    LAMBDA ps : Ok(LoweredNamed(ty.name, ps)))
      [] ty.kind = "Tuple" ->
            AndThen(lower_types(ty.types),
                    LAMBDA ts : Ok([kind |-> "Tuple", types |-> ts]))
      [] ty.kind = "Array" ->
            AndThen(lower_type(ty.inner),
                    LAMBDA t : Ok([kind |-> "Array", inner |-> t]))
      [] OTHER -> Err(UnsupportedFeature("Type not yet supported"))

\* iter().map(lower_type).collect::<Result<_,_>>(): the first error wins
lower_types(tys) ==
    IF tys = << >> THEN Ok(<< >>)
    ELSE AndThen(lower_type(Head(tys)), LAMBDA h :
         AndThen(lower_types(Tail(tys)), LAMBDA t : Ok(<<h>> \o t)))

\* ty.as_ref().map(lower_type).transpose()
lower_opt_type(ty) == IF ty = None THEN Ok(None) ELSE lower_type(ty)

lower_literal(lit) == lit

lower_param(param) ==
    [name |-> param.name,
     ty |-> IF param.ty = None THEN None
            ELSE unwrap_or(lower_type(param.ty), LoweredNamed("Unknown", << >>))]

RECURSIVE lower_params(_)
lower_params(params) ==
    IF params = << >> THEN << >>
    ELSE <<lower_param(Head(params))>> \o lower_params(Tail(params))

lower_field(field) ==
    AndThen(lower_type(field.ty),
            LAMBDA t : Ok([name |-> field.name, ty |-> t]))

RECURSIVE lower_fields(_)
lower_fields(fields) ==
    IF fields = << >> THEN Ok(<< >>)
    ELSE AndThen(lower_field(Head(fields)), LAMBDA h :
         AndThen(lower_fields(Tail(fields)), LAMBDA t : Ok(<<h>> \o t)))

lower_enum_variant(variant) ==
    AndThen(lower_fields(variant.fields),
            LAMBDA fs : Ok([name |-> variant.name, fields |-> fs]))

RECURSIVE lower_enum_variants(_)
lower_enum_variants(variants) ==
    IF variants = << >> THEN Ok(<< >>)
    ELSE AndThen(lower_enum_variant(Head(variants)), LAMBDA h :
         AndThen(lower_enum_variants(Tail(variants)), LAMBDA t : Ok(<<h>> \o t)))

lower_data(data) ==
    CASE data.data_kind = "Struct" ->
            AndThen(lower_fields(data.fields), LAMBDA fs :
                Ok([kind |-> "Data", name |-> data.name,
                    data_kind |-> "Struct", fields |-> fs]))
      [] data.data_kind = "Enum" ->
            AndThen(lower_enum_variants(data.variants), LAMBDA vs :
                Ok([kind |-> "Data", name |-> data.name,
                    data_kind |-> "Enum", variants |-> vs]))
      [] OTHER -> Err(UnsupportedFeature("TaggedUnion lowering not implemented"))

LoweredLet(name, mutable, value, ty, needs_clone) ==
    [kind |-> "Let", name |-> name, mutable |-> mutable, value |-> value,
     ty |-> ty, needs_clone |-> needs_clone]

RECURSIVE lower_expr(_, _)
RECURSIVE lower_exprs(_, _)
RECURSIVE lower_stmt(_, _)
RECURSIVE lower_stmt_with_clone(_, _, _)
RECURSIVE lower_block_from(_, _, _)

\* The Let arm shared by lower_stmt and lower_stmt_with_clone.
lower_let(stmt, a, needs_clone) ==
    IF stmt.pattern.kind # "Variable"
    THEN Err(UnsupportedFeature("Destructuring patterns in let"))
    ELSE AndThen(lower_expr(stmt.value, a), LAMBDA value :
         AndThen(lower_opt_type(stmt.ty), LAMBDA ty :
            Ok(LoweredLet(stmt.pattern.name,
                          stmt.pattern.name \in a.mutable_vars,
                          value, ty, needs_clone))))

lower_expr(expr, a) ==
    CASE expr.kind = "Literal" ->
            Ok([kind |-> "Literal", lit |-> lower_literal(expr.lit)])
      [] expr.kind = "Variable" ->
            Ok([kind |-> "Variable", name |-> expr.name])
      [] expr.kind = "Call" ->
            AndThen(lower_expr(expr.func, a), LAMBDA f :
            AndThen(lower_exprs(expr.args, a), LAMBDA args :
                Ok([kind |-> "Call", func |-> f, args |-> args])))
      [] expr.kind = "Block" ->
            AndThen(lower_block_from(expr.block.stmts, {}, a),
                    LAMBDA b : Ok([kind |-> "Block", block |-> b]))
      [] expr.kind = "FieldAccess" ->
            AndThen(lower_expr(expr.base, a), LAMBDA base_expr :
                IF /\ expr.base.kind = "Variable"
                   /\ expr.base.name \in {"v", "x"}
                   /\ expr.field \in {"push", "set"}
                THEN Ok([kind |-> "Variable", name |-> expr.base.name])
                ELSE Ok(base_expr))
      [] expr.kind = "Await" -> lower_expr(expr.expr, a)
      [] OTHER -> Err(UnsupportedFeature("Expression type not yet supported"))

lower_exprs(exprs, a) ==
    IF exprs = << >> THEN Ok(<< >>)
    ELSE AndThen(lower_expr(Head(exprs), a), LAMBDA h :
         AndThen(lower_exprs(Tail(exprs), a), LAMBDA t : Ok(<<h>> \o t)))

\* else_branch.as_ref().map(|b| lower_block(b, analysis)).transpose()
lower_opt_block(block, a) ==
    IF block = None THEN Ok(None) ELSE lower_block_from(block.stmts, {}, a)

lower_stmt(stmt, a) ==
    CASE stmt.kind = "Let" ->
            lower_let(stmt, a,
                stmt.value.kind = "Variable" /\ stmt.value.name \in a.cloned_vars)
      [] stmt.kind = "Expr" ->
            AndThen(lower_expr(stmt.expr, a),
                    LAMBDA e : Ok([kind |-> "Expr", expr |-> e]))
      [] stmt.kind = "Return" ->
            IF stmt.expr = None THEN Ok([kind |-> "Return", expr |-> None])
            ELSE AndThen(lower_expr(stmt.expr, a),
                         LAMBDA e : Ok([kind |-> "Return", expr |-> e]))
      [] stmt.kind = "If" ->
            AndThen(lower_expr(stmt.cond, a), LAMBDA cond :
            AndThen(lower_block_from(stmt.then_branch.stmts, {}, a), LAMBDA t :
            AndThen(lower_opt_block(stmt.else_branch, a), LAMBDA e :
                Ok([kind |-> "If", cond |-> cond,
                    then_branch |-> t, else_branch |-> e]))))
      [] OTHER -> Err(UnsupportedFeature("Statement type not yet supported"))

lower_stmt_with_clone(stmt, a, needs_clone) ==
    IF stmt.kind = "Let" THEN lower_let(stmt, a, needs_clone)
    ELSE lower_stmt(stmt, a)

\* Whether lower_block tracks the statement: a Let with a variable pattern.
IsTrackedLet(stmt) == stmt.kind = "Let" /\ stmt.pattern.kind = "Variable"

\* Whether a tracked Let has a bare variable as its value.
IsBareLet(stmt) == IsTrackedLet(stmt) /\ stmt.value.kind = "Variable"

\* A move_state in which a new binding of a name does not reset it
NextMoveStateNoReset(stmt, moved) ==
    IF IsBareLet(stmt) THEN moved \cup {stmt.value.name} ELSE moved

\* move_state after a statement: the value's name is marked moved, then the
\* bound name is reset to not moved.
NextMoveState(stmt, moved) ==
    IF IsTrackedLet(stmt)
    THEN ((IF IsBareLet(stmt) THEN moved \cup {stmt.value.name} ELSE moved)
             \ {stmt.pattern.name})
    ELSE moved

\* The loop of lower_block over the statements that remain; moved is the set
\* of names that move_state maps to true.
lower_block_from(stmts, moved, a) ==
    IF stmts = << >> THEN Ok(Block(<< >>))
    ELSE AndThen(
            IF IsTrackedLet(Head(stmts))
            THEN lower_stmt_with_clone(Head(stmts), a,
                    IsBareLet(Head(stmts)) /\ Head(stmts).value.name \in moved)
            ELSE lower_stmt(Head(stmts), a),
            LAMBDA lowered :
         AndThen(lower_block_from(Tail(stmts), NextMoveState(Head(stmts), moved), a),
            LAMBDA rest : Ok(Block(<<lowered>> \o rest.stmts))))

lower_block(block, a) == lower_block_from(block.stmts, {}, a)

lower_function(func, a) ==
    AndThen(lower_opt_type(func.ret_type), LAMBDA ret :
    AndThen(lower_block(func.body, a), LAMBDA body :
        Ok([kind |-> "Function", name |-> func.name,
            params |-> lower_params(func.params),
            ret_type |-> ret, body |-> body])))

\* One module item: Some(lowered item), or None for an item that is skipped.
lower_item(item, a) ==
    CASE item.kind = "Function" -> lower_function(item, a)
      [] item.kind = "Data" -> lower_data(item)
      [] OTHER -> Ok(None)

RECURSIVE lower_items(_, _)
lower_items(items, a) ==
    IF items = << >> THEN Ok(<< >>)
    ELSE AndThen(lower_item(Head(items), a), LAMBDA h :
         AndThen(lower_items(Tail(items), a), LAMBDA t :
            IF h = None THEN Ok(t) ELSE Ok(<<h>> \o t)))

lower_module(module) ==
    AndThen(lower_items(module.items, analyze_module(module)),
            LAMBDA items : Ok([items |-> items]))

(***************************************************************************)
(* codegen.rs                                                              *)
(*                                                                         *)
(* A generator takes and returns the pair st = [ctx, output]: the          *)
(* CodegenContext it may change and the text written so far.  No write to  *)
(* a String fails, so no generator returns a CodegenError.                 *)
(***************************************************************************)
Some(v) == [kind |-> "Some", value |-> v]

\* CodegenContext::new
NewCodegenContext ==
    [indent_level |-> 0, indent_size |-> 4, add_transpiler_comment |-> TRUE,
     analysis_result |-> None, current_function |-> None, mutable_vars |-> {},
     string_converted_vars |-> {}, string_converted_exprs |-> {}]

\* CodegenContext::with_analysis
with_analysis(a) ==
    [NewCodegenContext EXCEPT
        !.mutable_vars = a.mutable_vars,
        !.string_converted_vars = a.string_converted_vars,
        !.string_converted_exprs = a.string_converted_exprs,
        !.analysis_result = a]

RECURSIVE Repeat(_, _)
Repeat(s, n) == IF n <= 0 THEN "" ELSE s \o Repeat(s, n - 1)

\* CodegenContext::indent
indent(ctx) == Repeat(" ", ctx.indent_level * ctx.indent_size)

W(st, text) == [st EXCEPT !.output = @ \o text]

IncreaseIndent(st) == [st EXCEPT !.ctx.indent_level = @ + 1]

\* A block exit that leaves the indentation level where the block put it
DecreaseIndentForgotten(st) == st

DecreaseIndent(st) == [st EXCEPT !.ctx.indent_level = @ - 1]

Digit(d) == SubSeq("0123456789", d + 1, d + 1)

\* Display of an i64
RECURSIVE NatToString(_)
NatToString(n) ==
    IF n < 10 THEN Digit(n) ELSE NatToString(n \div 10) \o Digit(n % 10)

IntToString(i) == IF i < 0 THEN "-" \o NatToString(-i) ELSE NatToString(i)

\* str::replace("\"", "\\\"")
RECURSIVE EscapeQuotes(_)
EscapeQuotes(s) ==
    IF s = "" THEN ""
    ELSE LET c == SubSeq(s, 1, 1)
         IN  (IF c = "\"" THEN "\\\"" ELSE c) \o EscapeQuotes(SubSeq(s, 2, Len(s)))

\* A literal emitter that also converts every string literal as soon as any
\* expression is registered for string conversion
generate_literalOverEager(lit, st, force_to_string) ==
    CASE lit.kind = "Int" -> W(st, IntToString(lit.val))
      [] lit.kind = "Bool" -> W(st, IF lit.val THEN "true" ELSE "false")
      [] lit.kind = "String" ->
            W(st, "\"" \o EscapeQuotes(lit.val) \o "\""
                  \o (IF force_to_string \/ st.ctx.string_converted_exprs # {}
                      THEN ".to_string()" ELSE ""))
      [] lit.kind = "Null" -> W(st, "None")

generate_literal(lit, st, force_to_string) ==
    CASE lit.kind = "Int" -> W(st, IntToString(lit.val))
      [] lit.kind = "Bool" -> W(st, IF lit.val THEN "true" ELSE "false")
      [] lit.kind = "String" ->
            W(st, "\"" \o EscapeQuotes(lit.val) \o "\""
                  \o (IF force_to_string THEN ".to_string()" ELSE ""))
      [] lit.kind = "Null" -> W(st, "None")

RECURSIVE collect_lifetimes(_, _)
RECURSIVE collect_lifetimes_all(_, _)
collect_lifetimes(ty, out) ==
    CASE ty.kind = "Reference" ->
            IF ty.lifetime # None
            THEN IF \E i \in 1..Len(out) : out[i] = ty.lifetime.value
                 THEN out ELSE Append(out, ty.lifetime.value)
            ELSE collect_lifetimes(ty.inner, out)
      [] ty.kind = "Option" -> collect_lifetimes(ty.inner, out)
      [] ty.kind = "Result" ->
            collect_lifetimes(ty.err, collect_lifetimes(ty.ok, out))
      [] ty.kind = "Tuple" -> collect_lifetimes_all(ty.types, out)
      [] ty.kind = "Array" -> collect_lifetimes(ty.inner, out)
      [] ty.kind = "Named" -> collect_lifetimes_all(ty.params, out)
      [] OTHER -> out

collect_lifetimes_all(tys, out) ==
    IF tys = << >> THEN out
    ELSE collect_lifetimes_all(Tail(tys), collect_lifetimes(Head(tys), out))

\* lt.or(lifetime)
OrElse(a, b) == IF a # None THEN a ELSE b

RECURSIVE generate_type(_, _, _)
RECURSIVE generate_type_list(_, _, _, _)
RECURSIVE generate_type_with_lifetime(_, _, _)

generate_reference(ty, st, lifetime) ==
    LET l == OrElse(ty.lifetime, lifetime)
        s1 == W(st, "&" \o (IF l # None THEN "'" \o l.value \o " " ELSE ""))
    IN  generate_type_with_lifetime(ty.inner, s1, l)

generate_type_with_lifetime(ty, st, lifetime) ==
    CASE ty.kind = "Reference" -> generate_reference(ty, st, lifetime)
      [] ty.kind = "Named" /\ ty.name = "&" ->
            IF ty.params # << >>
            THEN generate_type_with_lifetime(ty.params[1], W(st, "&"), lifetime)
            ELSE W(st, "&")
      [] OTHER -> generate_type(ty, st, lifetime)

\* the types of a list separated by ", "
generate_type_list(tys, st, lifetime, first) ==
    IF tys = << >> THEN st
    ELSE generate_type_list(Tail(tys),
             generate_type(Head(tys), IF first THEN st ELSE W(st, ", "), lifetime),
             lifetime, FALSE)

generate_type(ty, st, lifetime) ==
    CASE ty.kind = "Named" ->
            IF ty.params # << >>
            THEN W(generate_type_list(ty.params, W(st, ty.name \o "<"),
                                      lifetime, TRUE), ">")
            ELSE W(st, ty.name)
      [] ty.kind = "Option" ->
            W(generate_type(ty.inner, W(st, "Option<"), lifetime), ">")
      [] ty.kind = "Result" ->
            W(generate_type(ty.err,
                  W(generate_type(ty.ok, W(st, "Result<"), lifetime), ", "),
                  lifetime), ">")
      [] ty.kind = "Tuple" ->
            W(generate_type_list(ty.types, W(st, "("), lifetime, TRUE), ")")
      [] ty.kind = "Array" ->
            W(generate_type(ty.inner, W(st, "["), lifetime), "]")
      [] ty.kind = "Reference" -> generate_reference(ty, st, lifetime)

generate_param(param, st) ==
    LET ctx == st.ctx
        is_mutable == /\ ctx.analysis_result # None
                      /\ param.name \in ctx.analysis_result.mutable_vars
        is_test_mutable == /\ ctx.current_function = Some("test_mutable_borrow")
                           /\ param.name = "v"
        s1 == W(st, (IF is_mutable \/ is_test_mutable THEN "mut " ELSE "")
                    \o param.name)
    IN  IF param.ty # None
        THEN generate_type(param.ty, W(s1, ": "), None)
        ELSE W(s1, ": i32")

generate_param_with_lifetime(param, st, lifetime) ==
    LET s1 == W(st, (IF param.name \in st.ctx.mutable_vars THEN "mut " ELSE "")
                    \o param.name)
    IN  IF param.ty # None
        THEN generate_type_with_lifetime(param.ty, W(s1, ": "), lifetime)
        ELSE W(s1, ": i32")

\* The read of a variable in generate_expr.
generate_variable(name, st) ==
    LET ctx == st.ctx
        a == ctx.analysis_result
        test_immut == ctx.current_function = Some("test_immutable_borrow")
                          /\ name = "s"
        test_mut == ~test_immut
                        /\ ctx.current_function = Some("test_mutable_borrow")
                        /\ name = "v"
        in_immut == a # None /\ name \in a.immut_borrowed_vars
        in_mut == a # None /\ ~in_immut /\ name \in a.mut_borrowed_vars
        in_graph == a # None /\ \E e \in a.borrow_graph : e[1] = name
        should_borrow_immutably == test_immut \/ in_immut \/ in_graph
        should_borrow_mutably == test_mut \/ in_mut
    IN  IF should_borrow_immutably THEN W(st, "&" \o name)
        ELSE IF should_borrow_mutably THEN W(st, "&mut " \o name)
        ELSE W(st, name \o (IF a # None /\ name \in a.string_converted_vars
                            THEN ".to_string()" ELSE ""))

RECURSIVE generate_expr(_, _)
RECURSIVE generate_args(_, _, _)
RECURSIVE generate_stmt(_, _)
RECURSIVE generate_stmts(_, _)

generate_block(block, st) == generate_stmts(block.stmts, st)

\* the arguments of a call separated by ", "
generate_args(args, st, first) ==
    IF args = << >> THEN st
    ELSE generate_args(Tail(args),
             generate_expr(Head(args), IF first THEN st ELSE W(st, ", ")), FALSE)

generate_expr(expr, st) ==
    CASE expr.kind = "Literal" -> generate_literal(expr.lit, st, FALSE)
      [] expr.kind = "Variable" -> generate_variable(expr.name, st)
      [] expr.kind = "Call" ->
            LET f == expr.func
                args == expr.args
            IN  IF f.kind = "Variable" /\ f.name = "+" /\ Len(args) = 2
                THEN LET l == IF args[1].kind = "Literal"
                                 /\ args[1].lit.kind = "String"
                              THEN generate_literal(args[1].lit, st, TRUE)
                              ELSE generate_expr(args[1], st)
                     IN  generate_expr(args[2], W(l, " + "))
                ELSE IF f.kind = "Variable" /\ f.name = "println"
                THEN W(generate_args(args, W(st, "println!("), TRUE), ")")
                ELSE W(generate_args(args, W(generate_expr(f, st), "("), TRUE), ")")
      [] expr.kind = "Block" ->
            W(generate_stmts(expr.block.stmts, W(st, "{ ")), "}")
      [] expr.kind = "Propagate" -> W(generate_expr(expr.inner, st), "?")

generate_if(stmt, st) ==
    Then(W(generate_expr(stmt.cond, W(st, indent(st.ctx) \o "if ")), " {\n"),
         LAMBDA s1 :
    Then(DecreaseIndent(generate_block(stmt.then_branch, IncreaseIndent(s1))),
         LAMBDA s2 :
    Then(W(s2, indent(s2.ctx) \o "}"),
         LAMBDA s3 :
    Then(IF stmt.else_branch # None
         THEN Then(DecreaseIndent(
                       generate_block(stmt.else_branch,
                           IncreaseIndent(W(s3, " else {\n")))),
                   LAMBDA e1 : W(e1, indent(e1.ctx) \o "}"))
         ELSE s3,
         LAMBDA s4 : W(s4, "\n")))))

generate_stmt(stmt, st) ==
    CASE stmt.kind = "Let" ->
            LET s1 == W(st, indent(st.ctx)
                            \o (IF stmt.mutable THEN "let mut " ELSE "let ")
                            \o stmt.name)
                s2 == IF stmt.ty # None
                      THEN generate_type(stmt.ty, W(s1, ": "), None)
                      ELSE s1
                s3 == W(s2, " = ")
                force_to_string == /\ stmt.ty # None
                                   /\ stmt.ty.kind = "Named"
                                   /\ stmt.ty.name = "String"
                                   /\ stmt.value.kind = "Literal"
                                   /\ stmt.value.lit.kind = "String"
            IN  IF stmt.needs_clone /\ stmt.value.kind = "Variable"
                THEN W(s3, stmt.value.name \o ".clone()" \o ";\n")
                ELSE IF stmt.value.kind = "Literal"
                THEN W(generate_literal(stmt.value.lit, s3, force_to_string), ";\n")
                ELSE W(generate_expr(stmt.value, s3), ";\n")
      [] stmt.kind = "If" -> generate_if(stmt, st)
      [] stmt.kind = "Expr" ->
            W(generate_expr(stmt.expr, W(st, indent(st.ctx))), ";\n")
      [] stmt.kind = "Return" ->
            LET s1 == W(st, indent(st.ctx) \o "return")
            IN  IF stmt.expr # None
                THEN W(generate_expr(stmt.expr, W(s1, " ")), ";\n")
                ELSE W(s1, ";\n")

generate_stmts(stmts, st) ==
    IF stmts = << >> THEN st
    ELSE Then(generate_stmt(Head(stmts), st),
              LAMBDA s1 : generate_stmts(Tail(stmts), s1))

RECURSIVE LifetimeList(_)
LifetimeList(lifetimes) ==
    IF Len(lifetimes) = 1 THEN "'" \o lifetimes[1]
    ELSE "'" \o Head(lifetimes) \o ", " \o LifetimeList(Tail(lifetimes))

RECURSIVE collect_param_lifetimes(_, _)
collect_param_lifetimes(params, out) ==
    IF params = << >> THEN out
    ELSE collect_param_lifetimes(Tail(params),
             IF Head(params).ty # None
             THEN collect_lifetimes(Head(params).ty, out)
             ELSE out)

RECURSIVE generate_params(_, _, _, _)
generate_params(params, st, needs_default_lifetime, first) ==
    IF params = << >> THEN st
    ELSE LET s1 == IF first THEN st ELSE W(st, ", ")
             s2 == IF needs_default_lifetime
                   THEN generate_param_with_lifetime(Head(params), s1, Some("a"))
                   ELSE generate_param(Head(params), s1)
         IN  generate_params(Tail(params), s2, needs_default_lifetime, FALSE)

\* A field that the LoweredFunction of lowering.rs does not carry reads false.
Flag(func, field) == field \in DOMAIN func /\ func[field]

generate_function(func, st) ==
    LET l1 == collect_param_lifetimes(func.params, << >>)
        l2 == IF func.ret_type # None
              THEN collect_lifetimes(func.ret_type, l1) ELSE l1
        needs_default_lifetime ==
            /\ func.ret_type # None
            /\ func.ret_type.kind = "Reference"
            /\ func.ret_type.lifetime = None
            /\ l2 = << >>
        lifetimes == IF needs_default_lifetime THEN <<"a">> ELSE l2
    IN  Then(W(st, indent(st.ctx) \o "fn " \o func.name),
             LAMBDA s1 :
        Then(IF lifetimes # << >>
             THEN W(s1, "<" \o LifetimeList(lifetimes) \o ">") ELSE s1,
             LAMBDA s2 :
        Then(W(generate_params(func.params, W(s2, "("),
                               needs_default_lifetime, TRUE), ")"),
             LAMBDA s3 :
        Then(IF func.ret_type # None
             THEN generate_type_with_lifetime(func.ret_type, W(s3, " -> "),
                      IF needs_default_lifetime THEN Some("a") ELSE None)
             ELSE IF Flag(func, "is_option") THEN W(s3, " -> Option<_>")
             ELSE IF Flag(func, "is_result") THEN W(s3, " -> Result<_, _>")
             ELSE s3,
             LAMBDA s4 :
        Then(DecreaseIndent(generate_block(func.body,
                                IncreaseIndent(W(s4, " {\n")))),
             LAMBDA s5 : W(s5, indent(s5.ctx) \o "}\n"))))))

\* CodegenContext::decrease_indent
decrease_indent(st) ==
    IF st.ctx.indent_level > 0 THEN DecreaseIndent(st) ELSE st

RECURSIVE generate_struct_fields(_, _)
generate_struct_fields(fields, st) ==
    IF fields = << >> THEN st
    ELSE generate_struct_fields(Tail(fields),
             W(generate_type(Head(fields).ty,
                   W(st, indent(st.ctx) \o Head(fields).name \o ": "), None),
               ",\n"))

RECURSIVE generate_variant_types(_, _, _)
generate_variant_types(fields, st, first) ==
    IF fields = << >> THEN st
    ELSE generate_variant_types(Tail(fields),
             generate_type(Head(fields).ty,
                 IF first THEN st ELSE W(st, ", "), None),
             FALSE)

generate_enum_variant(variant, st) ==
    LET s1 == W(st, indent(st.ctx) \o variant.name)
        s2 == IF variant.fields # << >>
              THEN W(generate_variant_types(variant.fields, W(s1, "("), TRUE), ")")
              ELSE s1
    IN  W(s2, ",\n")

RECURSIVE generate_enum_variants(_, _)
generate_enum_variants(variants, st) ==
    IF variants = << >> THEN st
    ELSE generate_enum_variants(Tail(variants),
             generate_enum_variant(Head(variants), st))

\* A data emitter that ends the definition with an empty line of its own
generate_dataWithBlankLine(data, st) ==
    LET open == W(st, indent(st.ctx)
                      \o (IF data.data_kind = "Struct" THEN "struct " ELSE "enum ")
                      \o data.name \o " {\n")
        inner == IF data.data_kind = "Struct"
                 THEN generate_struct_fields(data.fields, IncreaseIndent(open))
                 ELSE generate_enum_variants(data.variants, IncreaseIndent(open))
        s2 == decrease_indent(inner)
    IN  W(s2, indent(s2.ctx) \o "}\n\n")

generate_data(data, st) ==
    LET open == W(st, indent(st.ctx)
                      \o (IF data.data_kind = "Struct" THEN "struct " ELSE "enum ")
                      \o data.name \o " {\n")
        inner == IF data.data_kind = "Struct"
                 THEN generate_struct_fields(data.fields, IncreaseIndent(open))
                 ELSE generate_enum_variants(data.variants, IncreaseIndent(open))
        s2 == decrease_indent(inner)
    IN  W(s2, indent(s2.ctx) \o "}\n")

RECURSIVE generate_items(_, _)
generate_items(items, st) ==
    IF items = << >> THEN st
    ELSE Then(IF Head(items).kind = "Function"
              THEN Then([st EXCEPT !.ctx.current_function = Some(Head(items).name)],
                        LAMBDA a :
                   Then(W(generate_function(Head(items), a), "\n"),
                        LAMBDA b : [b EXCEPT !.ctx.current_function = None]))
              ELSE W(generate_data(Head(items), st), "\n"),
              LAMBDA s1 : generate_items(Tail(items), s1))

\* generate_rust_code: the text returned and the context left behind
generate_rust_code(module, ctx) ==
    generate_items(module.items, [ctx |-> ctx, output |-> ""])

(***************************************************************************)
(* parser.rs: the source text is modelled by the parse tree Pest gives for *)
(* it (rule names and the matched text), or by the grammar's rejection.    *)
(***************************************************************************)
ParseErr(msg) == [kind |-> "Err", error |-> msg]

RECURSIVE build_expr(_)
RECURSIVE build_exprs(_)
build_expr(pair) ==
    CASE pair.rule = "expr" -> build_expr(pair.inner)
      [] pair.rule = "call_expr" ->
            LET args == build_exprs(pair.args)
            IN  IF IsOk(args)
                THEN Ok(ExprCall(ExprVariable(pair.func, pair.func_span),
                                 args.value, pair.span))
                ELSE args
      [] pair.rule = "string_literal" ->
            Ok(ExprLiteral(Lit("String", SubSeq(pair.text, 2, Len(pair.text) - 1)),
                           pair.span))
      [] pair.rule = "identifier" -> Ok(ExprVariable(pair.text, pair.span))
      [] OTHER -> ParseErr("Parse error: Unexpected rule: " \o pair.rule)

build_exprs(pairs) ==
    IF pairs = << >> THEN Ok(<< >>)
    ELSE LET h == build_expr(Head(pairs))
         IN  IF ~IsOk(h) THEN h
             ELSE LET t == build_exprs(Tail(pairs))
                  IN  IF IsOk(t) THEN Ok(<<h.value>> \o t.value) ELSE t

build_stmt(pair) ==
    IF pair.rule = "expr_stmt"
    THEN LET e == build_expr(pair.inner)
         IN  IF IsOk(e) THEN Ok(StmtExpr(e.value)) ELSE e
    ELSE ParseErr("Parse error: Unexpected rule: " \o pair.rule)

RECURSIVE build_stmts(_)
build_stmts(pairs) ==
    IF pairs = << >> THEN Ok(<< >>)
    ELSE LET h == build_stmt(Head(pairs))
         IN  IF ~IsOk(h) THEN h
             ELSE LET t == build_stmts(Tail(pairs))
                  IN  IF IsOk(t) THEN Ok(<<h.value>> \o t.value) ELSE t

RECURSIVE build_params(_)
build_params(names) ==
    IF names = << >> THEN << >>
    ELSE <<Param(Head(names), None)>> \o build_params(Tail(names))

build_function_def(pair) ==
    LET body == build_stmts(pair.stmts)
    IN  IF IsOk(body)
        THEN Ok(FunctionDef(pair.name, build_params(pair.params), None,
                            Block(body.value)))
        ELSE body

\* build_module: only function_def items are kept
RECURSIVE build_items(_)
build_items(pairs) ==
    IF pairs = << >> THEN Ok(<< >>)
    ELSE IF Head(pairs).rule # "function_def" THEN build_items(Tail(pairs))
    ELSE LET h == build_function_def(Head(pairs))
         IN  IF ~IsOk(h) THEN h
             ELSE LET t == build_items(Tail(pairs))
                  IN  IF IsOk(t) THEN Ok(<<h.value>> \o t.value) ELSE t

parse(src) ==
    IF ~src.accepted THEN ParseErr("Parse error: " \o src.pest_error)
    ELSE LET items == build_items(src.items)
         IN  IF IsOk(items) THEN Ok(Module(items.value)) ELSE items

(***************************************************************************)
(* lib.rs: TranspilerError, transpile_source, transpile_file               *)
(***************************************************************************)
TranspilerError(variant, err) == [kind |-> variant, error |-> err]

\* Bounds of the source texts of the pipeline specification
MaxSrcStmts == 2

SrcFuncNames == {"main", "test_mutable_borrow"}

SrcParams == {<< >>, <<"v">>}

\* Parse trees of statements: two call statements, a bare identifier, and a
\* statement rule that build_stmt does not handle.
SrcStmt ==
    { [rule |-> "expr_stmt",
       inner |-> [rule |-> "expr",
                  inner |-> [rule |-> "call_expr", func |-> "println",
                             func_span |-> Span(0, 7),
                             args |-> << [rule |-> "string_literal",
                                          text |-> "\"Hello, World!\"",
                                          span |-> Span(8, 23)] >>,
                             span |-> Span(0, 24)]]],
      [rule |-> "expr_stmt",
       inner |-> [rule |-> "expr",
                  inner |-> [rule |-> "call_expr", func |-> "consume",
                             func_span |-> Span(0, 7),
                             args |-> << [rule |-> "identifier", text |-> "v",
                                          span |-> Span(8, 9)] >>,
                             span |-> Span(0, 10)]]],
      [rule |-> "expr_stmt",
       inner |-> [rule |-> "identifier", text |-> "v", span |-> Span(0, 1)]],
      [rule |-> "let_stmt"] }

SrcBodies == UNION { [1..n -> SrcStmt] : n \in 0..MaxSrcStmts }

SrcFunctions ==
    { [rule |-> "function_def", name |-> n, params |-> ps, stmts |-> b] :
        n \in SrcFuncNames, ps \in SrcParams, b \in SrcBodies }

\* The source texts: one the grammar rejects, the empty file, and files of
\* one function, alone or after an import.
Sources ==
    { [accepted |-> FALSE, pest_error |-> "expected function_def", items |-> << >>],
      [accepted |-> TRUE, pest_error |-> "", items |-> << >>] }
    \cup { [accepted |-> TRUE, pest_error |-> "", items |-> <<f>>] :
             f \in SrcFunctions }
    \cup { [accepted |-> TRUE, pest_error |-> "",
            items |-> <<[rule |-> "import"], f>>] : f \in SrcFunctions }

Unused == None

PipelineInit ==
    /\ pc = "start"
    /\ input_file \in {None} \cup { Some(src) : src \in Sources }
    /\ output_file \in {None, Some("// old output\n")}
    /\ source = None
    /\ ast = None
    /\ analysis = None
    /\ ir = None
    /\ cg = None
    /\ rust_code = None
    /\ result = None
    /\ stages = << >>
    /\ body_context = Unused
    /\ context = Unused
    /\ method = Unused

\* transpile_file: std::fs::read_to_string(input_path)?
ReadInput ==
    /\ pc = "start"
    /\ IF input_file = None
       THEN /\ result' = Err(TranspilerError("IoError", "read failed"))
            /\ pc' = "done"
            /\ source' = source
       ELSE /\ source' = input_file.value
            /\ pc' = "parse"
            /\ result' = result
    /\ UNCHANGED << input_file, output_file, ast, analysis, body_context, ir, cg,
                    rust_code, stages, context, method >>

\* A transpile_source that goes on after a parse error with an empty module
ParseStageGoesOn ==
    /\ pc = "parse"
    /\ stages' = Append(stages, "parse")
    /\ ast' = unwrap_or(parse(source), Module(<< >>))
    /\ pc' = "infer"
    /\ UNCHANGED << input_file, output_file, source, analysis, body_context, ir,
                    cg, rust_code, result, context, method >>

\* transpile_source: parser::parse(source).map_err(...)?
ParseStage ==
    /\ pc = "parse"
    /\ stages' = Append(stages, "parse")
    /\ LET r == parse(source)
       IN  IF IsOk(r)
           THEN /\ ast' = r.value
                /\ pc' = "infer"
                /\ rust_code' = rust_code
           ELSE /\ rust_code' = Err(TranspilerError("ParseError", r.error))
                /\ pc' = "source_returned"
                /\ ast' = ast
    /\ UNCHANGED << input_file, output_file, source, analysis, body_context, ir,
                    cg, result, context, method >>

\* transpile_source: ownership_inference.analyze_module(&ast)
InferStage ==
    /\ pc = "infer"
    /\ stages' = Append(stages, "ownership")
    /\ analysis' = analyze_module(ast)
    /\ pc' = "lower"
    /\ UNCHANGED << input_file, output_file, source, ast, body_context, ir, cg,
                    rust_code, result, context, method >>

\* transpile_source: lowering::lower_module(&ast)?
LowerStage ==
    /\ pc = "lower"
    /\ stages' = Append(stages, "lowering")
    /\ LET r == lower_module(ast)
       IN  IF IsOk(r)
           THEN /\ ir' = r.value
                /\ pc' = "emit"
                /\ rust_code' = rust_code
           ELSE /\ rust_code' = Err(TranspilerError("LoweringError", r.error))
                /\ pc' = "source_returned"
                /\ ir' = ir
    /\ UNCHANGED << input_file, output_file, source, ast, analysis, body_context,
                    cg, result, context, method >>

\* transpile_source: CodegenContext::new(); generate_rust_code(&ir, &mut ctx)?
EmitStage ==
    /\ pc = "emit"
    /\ stages' = Append(stages, "emission")
    /\ LET g == generate_rust_code(ir, NewCodegenContext)
       IN  /\ cg' = g.ctx
           /\ rust_code' = Ok(g.output)
    /\ pc' = "source_returned"
    /\ UNCHANGED << input_file, output_file, source, ast, analysis, body_context,
                    ir, result, context, method >>

\* A transpile_file that creates the output file before it transpiles
ReturnErrorAfterCreate ==
    /\ pc = "source_returned"
    /\ ~IsOk(rust_code)
    /\ output_file' = Some("")
    /\ result' = rust_code
    /\ pc' = "done"
    /\ UNCHANGED << input_file, source, ast, analysis, body_context, ir, cg,
                    rust_code, stages, context, method >>

\* transpile_file: `let rust_code = transpile_source(&source)?;` on an error
ReturnError ==
    /\ pc = "source_returned"
    /\ ~IsOk(rust_code)
    /\ result' = rust_code
    /\ pc' = "done"
    /\ UNCHANGED << input_file, output_file, source, ast, analysis, body_context,
                    ir, cg, rust_code, stages, context, method >>

\* transpile_file: std::fs::write(output_path, rust_code)? succeeds
WriteOutput ==
    /\ pc = "source_returned"
    /\ IsOk(rust_code)
    /\ output_file' = Some(rust_code.value)
    /\ result' = Ok("()")
    /\ pc' = "done"
    /\ UNCHANGED << input_file, source, ast, analysis, body_context, ir, cg,
                    rust_code, stages, context, method >>

\* transpile_file: std::fs::write fails, before the file is created or after
\* it was created or truncated
WriteFails ==
    /\ pc = "source_returned"
    /\ IsOk(rust_code)
    /\ output_file' \in {output_file, Some("")}
    /\ result' = Err(TranspilerError("IoError", "write failed"))
    /\ pc' = "done"
    /\ UNCHANGED << input_file, source, ast, analysis, body_context, ir, cg,
                    rust_code, stages, context, method >>

Next ==
    \/ ReadInput
    \/ ParseStage
    \/ InferStage
    \/ LowerStage
    \/ EmitStage
    \/ ReturnError
    \/ WriteOutput
    \/ WriteFails

Spec == PipelineInit /\ [][Next]_vars

(***************************************************************************)
(* The pipeline: transpile_source and transpile_file                       *)
(***************************************************************************)
StageOrder == <<"parse", "ownership", "lowering", "emission">>

IsPrefix(s, t) == Len(s) <= Len(t) /\ s = SubSeq(t, 1, Len(s))

\* What transpile_source returns for a source text, stage by stage.
ExpectedReturn(src) ==
    IF ~IsOk(parse(src))
    THEN [stages |-> SubSeq(StageOrder, 1, 1),
          value |-> Err(TranspilerError("ParseError", parse(src).error))]
    ELSE IF ~IsOk(lower_module(parse(src).value))
    THEN [stages |-> SubSeq(StageOrder, 1, 3),
          value |-> Err(TranspilerError("LoweringError",
                                        lower_module(parse(src).value).error))]
    ELSE [stages |-> StageOrder,
          value |-> Ok(generate_rust_code(lower_module(parse(src).value).value,
                                          NewCodegenContext).output)]

\* C1: in one transpile_source call the stages run in the order parse,
\* ownership inference, lowering, emission; a stage that fails is the last
\* one to run, and the call then returns that stage's error in the matching
\* TranspilerError variant instead of text.
C1_StagesInOrderFailFast ==
    /\ IsPrefix(stages, StageOrder)
    /\ pc = "source_returned" =>
          /\ stages = ExpectedReturn(source).stages
          /\ rust_code = ExpectedReturn(source).value
          /\ IsOk(rust_code) <=> stages = StageOrder

\* C1 witness: a call that stopped at a parse error, having run no later stage
C1_Witness ==
    /\ pc = "source_returned"
    /\ stages = <<"parse">>
    /\ ~IsOk(rust_code)
    /\ rust_code.error.kind = "ParseError"
    /\ ast = None /\ analysis = None /\ ir = None

\* C2: transpile_file changes the output file only once transpile_source has
\* returned the complete text; when reading the input fails or
\* transpile_source returns an error, transpile_file returns that error and
\* the output file is as it was (absent or with its old contents).
C2_NoPartialOutput ==
    /\ [][output_file' # output_file =>
            /\ pc = "source_returned"
            /\ IsOk(rust_code)
            /\ rust_code = ExpectedReturn(source).value]_vars
    /\ [](pc = "done" /\ input_file = None =>
            ~IsOk(result) /\ result.error.kind = "IoError")
    /\ [](pc = "done" /\ rust_code # None /\ ~IsOk(rust_code) =>
            result = rust_code)
    /\ [](pc = "done" /\ IsOk(result) => output_file = Some(rust_code.value))

\* C2 witness: transpile_file has returned transpile_source's error and the
\* old output is still in place
C2_Witness ==
    /\ pc = "done"
    /\ rust_code # None
    /\ ~IsOk(rust_code)
    /\ result = rust_code
    /\ output_file = Some("// old output\n")

(***************************************************************************)
(* Ownership inference on modules given as syntax trees                    *)
(***************************************************************************)
\* Bound: the number of statements of an analysed function body
MaxAnStmts == 2

NoSpan == Span(0, 0)

Var(name) == ExprVariable(name, NoSpan)

IntLit(i) == ExprLiteral(Lit("Int", i), NoSpan)

\* base.field(args)
MethodCall(base, field, args) ==
    ExprCall(ExprFieldAccess(Var(base), field, NoSpan), args, NoSpan)

\* func(args)
FnCall(func, args) == ExprCall(Var(func), args, NoSpan)

LetVar(name, value) == StmtLet(PatVariable(name), value, None, NoSpan)

AnFuncNames == {"f", "test_reassign", "test_move_inference", "test_mutable_borrow"}

AnParams == {<< >>, <<Param("v", None)>>}

\* let w = v; let a = 1; a.push(1); ref(v); ref_mut(v);
\* if c { a.push(1); }; return v.push(1);
AnStmt ==
    { LetVar("w", Var("v")),
      LetVar("a", IntLit(1)),
      StmtExpr(MethodCall("a", "push", <<IntLit(1)>>)),
      StmtExpr(FnCall("ref", <<Var("v")>>)),
      StmtExpr(FnCall("ref_mut", <<Var("v")>>)),
      StmtIf(Var("c"), Block(<<StmtExpr(MethodCall("a", "push", <<IntLit(1)>>))>>),
             None),
      StmtReturn(MethodCall("v", "push", <<IntLit(1)>>)) }

AnBodies == UNION { [1..n -> AnStmt] : n \in 0..MaxAnStmts }

AnModules ==
    { Module(<<FunctionDef(n, ps, None, Block(b))>>) :
        n \in AnFuncNames, ps \in AnParams, b \in AnBodies }

AnalysisInit ==
    /\ pc = "analyze"
    /\ ast \in AnModules
    /\ analysis = None
    /\ body_context = None
    /\ input_file = Unused
    /\ output_file = Unused
    /\ source = Unused
    /\ ir = Unused
    /\ cg = Unused
    /\ rust_code = Unused
    /\ result = Unused
    /\ stages = << >>
    /\ context = Unused
    /\ method = Unused

\* ownership_inference.analyze_module(&module); body_context records the
\* local context analyze_function held when it finished the function's body.
AnalyzeModule ==
    /\ pc = "analyze"
    /\ analysis' = analyze_module(ast)
    /\ body_context' = FunctionBodyContext(ast.items[1], NewContext)
    /\ pc' = "analyzed"
    /\ UNCHANGED << input_file, output_file, source, ast, ir, cg, rust_code,
                    result, stages, context, method >>

AnalysisNext == AnalyzeModule

SpecAnalysis == AnalysisInit /\ [][AnalysisNext]_vars

\* The names of mutating methods and the prefixes of such names, as the
\* specification lists them.
ListedMutatingNames ==
    {"push", "pop", "insert", "remove", "clear", "resize", "extend", "set",
     "push_str", "push_back", "append", "insert_str", "truncate", "retain",
     "sort", "reverse", "shuffle", "fill"}

ListedMutatingPrefixes ==
    {"push", "pop", "insert", "remove", "clear", "set", "add", "delete", "update"}

ListedAsMutating(f) ==
    \/ f \in ListedMutatingNames
    \/ \E prefix \in ListedMutatingPrefixes : starts_with(f, prefix)

RECURSIVE ExprHasR1(_, _)
RECURSIVE ArgsHaveR1(_, _)
RECURSIVE StmtHasR1(_, _)
RECURSIVE BlockHasR1(_, _)

\* R1 (a) in an expression: a call n.f(...) with f a mutating method name
ExprHasR1(n, expr) ==
    CASE expr.kind = "Call" ->
            \/ /\ expr.func.kind = "FieldAccess"
               /\ expr.func.base.kind = "Variable"
               /\ expr.func.base.name = n
               /\ ListedAsMutating(expr.func.field)
            \/ ExprHasR1(n, expr.func)
            \/ ArgsHaveR1(n, expr.args)
      [] expr.kind = "FieldAccess" -> ExprHasR1(n, expr.base)
      [] expr.kind = "Block" -> BlockHasR1(n, expr.block.stmts)
      [] OTHER -> FALSE

ArgsHaveR1(n, args) ==
    args # << >> /\ (ExprHasR1(n, Head(args)) \/ ArgsHaveR1(n, Tail(args)))

\* R1 (a) in a statement, and R1 (c): a branch or loop body with R1
StmtHasR1(n, stmt) ==
    CASE stmt.kind = "Let" -> ExprHasR1(n, stmt.value)
      [] stmt.kind = "Expr" -> ExprHasR1(n, stmt.expr)
      [] stmt.kind = "Return" -> stmt.expr # None /\ ExprHasR1(n, stmt.expr)
      [] stmt.kind = "If" ->
            \/ ExprHasR1(n, stmt.cond)
            \/ BlockHasR1(n, stmt.then_branch.stmts)
            \/ stmt.else_branch # None /\ BlockHasR1(n, stmt.else_branch.stmts)
      [] stmt.kind = "While" ->
            ExprHasR1(n, stmt.cond) \/ BlockHasR1(n, stmt.body.stmts)
      [] stmt.kind = "For" ->
            ExprHasR1(n, stmt.iterable) \/ BlockHasR1(n, stmt.body.stmts)
      [] OTHER -> FALSE

BindsName(stmt, n) ==
    stmt.kind = "Let" /\ stmt.pattern.kind = "Variable" /\ stmt.pattern.name = n

\* R1 for n in a block: (a) or (c) in one of its statements, or (b) two Lets
\* of the block that bind n
BlockHasR1(n, stmts) ==
    \/ \E i \in 1..Len(stmts) : StmtHasR1(n, stmts[i])
    \/ \E i, j \in 1..Len(stmts) :
          i < j /\ BindsName(stmts[i], n) /\ BindsName(stmts[j], n)

AnNames == {"a", "c", "v", "w", "x"}

\* C3: for every module and every name n, n is in the mutable set of the
\* result of analyze_module if and only if an R1 condition holds for n in
\* the function's body: a mutating method call on n, a re-declaration of n
\* in one scope, or a branch or loop body in which one of these happens.
C3_MutableIffR1 ==
    pc = "analyzed" =>
        \A n \in AnNames :
            n \in analysis.mutable_vars <=> BlockHasR1(n, ast.items[1].body.stmts)

\* A use of v that makes Let(w, v) something else than a move: v is borrowed
\* or mutated in place somewhere in the body.
RECURSIVE ExprBorrows(_, _)
ExprBorrows(v, expr) ==
    /\ expr.kind = "Call"
    /\ \/ /\ expr.func.kind = "Variable"
          /\ expr.func.name \in {"ref", "borrow", "ref_mut", "borrow_mut"}
          /\ expr.args # << >>
          /\ expr.args[1] = Var(v)
       \/ \E i \in 1..Len(expr.args) : ExprBorrows(v, expr.args[i])

StmtBorrows(v, stmt) ==
    \/ stmt.kind = "Expr" /\ ExprBorrows(v, stmt.expr)
    \/ stmt.kind = "Let" /\ ExprBorrows(v, stmt.value)
    \/ stmt.kind = "Return" /\ stmt.expr # None /\ ExprBorrows(v, stmt.expr)

\* The function declares v as a parameter and its body has the statement
\* let w = v, while nothing in the body borrows v or mutates it in place.
MovesV(func) ==
    /\ \E i \in 1..Len(func.params) : func.params[i].name = "v"
    /\ \E i \in 1..Len(func.body.stmts) :
          func.body.stmts[i] = LetVar("w", Var("v"))
    /\ \A i \in 1..Len(func.body.stmts) : ~StmtBorrows("v", func.body.stmts[i])
    /\ ~BlockHasR1("v", func.body.stmts)

\* C5: for a function of any name, after a statement let w = v in which v
\* is neither borrowed nor mutated in place, the ownership state of v is
\* Moved and v is in the moved set of the result of analyze_module.
C5_LetMovesValue ==
    pc = "analyzed" /\ MovesV(ast.items[1]) =>
        /\ lookup_variable(body_context, "v").ownership = "Moved"
        /\ "v" \in analysis.moved_vars

HasStmt(func, stmt) ==
    \E i \in 1..Len(func.body.stmts) : func.body.stmts[i] = stmt

\* C8: for a function of any name, a call ref(x) on a bare variable x in the
\* body puts x in the shared-borrowed set of the result of analyze_module,
\* and a call ref_mut(x) puts x in the exclusive-borrowed set and in the
\* mutable set.
C8_BorrowHelpersRecorded ==
    pc = "analyzed" =>
        /\ HasStmt(ast.items[1], StmtExpr(FnCall("ref", <<Var("v")>>))) =>
              "v" \in analysis.immut_borrowed_vars
        /\ HasStmt(ast.items[1], StmtExpr(FnCall("ref_mut", <<Var("v")>>))) =>
              /\ "v" \in analysis.mut_borrowed_vars
              /\ "v" \in analysis.mutable_vars

(***************************************************************************)
(* An OwnershipContext driven through its operations                       *)
(***************************************************************************)
\* Bound: the number of operations applied to the context
MaxCtxSteps == 2

CtxNames == {"a", "v"}

\* v.push(1), a.push(1), ref(v), ref_mut(v)
CtxExprs ==
    { MethodCall("v", "push", <<IntLit(1)>>),
      MethodCall("a", "push", <<IntLit(1)>>),
      FnCall("ref", <<Var("v")>>),
      FnCall("ref_mut", <<Var("v")>>) }

\* The context is that of a function whose parameters were declared.
ContextInit ==
    /\ pc = "context"
    /\ context \in { analyze_params(ps, NewContext) : ps \in AnParams }
    /\ stages = << >>
    /\ analysis = None
    /\ body_context = Unused
    /\ input_file = Unused
    /\ output_file = Unused
    /\ source = Unused
    /\ ast = Unused
    /\ ir = Unused
    /\ cg = Unused
    /\ rust_code = Unused
    /\ result = Unused
    /\ method = Unused

\* What an operation on the context leaves alone.
ContextStep(op) ==
    /\ pc = "context"
    /\ Len(stages) < MaxCtxSteps
    /\ stages' = Append(stages, op)
    /\ UNCHANGED << pc, input_file, output_file, source, ast, analysis,
                    body_context, ir, cg, rust_code, result, method >>

RecordBorrow ==
    /\ ContextStep("record_borrow")
    /\ \E n \in CtxNames, is_mutable \in BOOLEAN :
          context' = record_borrow(context, n, is_mutable)

DetectAssignment ==
    /\ ContextStep("detect_assignment_in_expr")
    /\ \E e \in CtxExprs : context' = detect_assignment_in_expr(e, context)

TrackMutableBorrows ==
    /\ ContextStep("track_mutable_borrows")
    /\ \E e \in CtxExprs : context' = track_mutable_borrows(e, context)

AnalyzeStmt ==
    /\ ContextStep("analyze_stmt")
    /\ \E s \in AnStmt : context' = analyze_stmt(s, context)

ContextNext ==
    \/ RecordBorrow
    \/ DetectAssignment
    \/ TrackMutableBorrows
    \/ AnalyzeStmt

SpecContext == ContextInit /\ [][ContextNext]_vars

\* Every exclusively borrowed name of an analysis result is a mutable name.
ExclusiveImpliesMutable(a) == a.mut_borrowed_vars \subseteq a.mutable_vars

\* C4: in the result that analyze_module returns, and in the accumulated
\* result of an OwnershipContext after any sequence of record_borrow,
\* detect_assignment_in_expr, track_mutable_borrows and analyze_stmt steps,
\* every name of the exclusive-borrowed set is in the mutable set.
C4_ExclusiveBorrowedAreMutable ==
    /\ pc = "analyzed" => ExclusiveImpliesMutable(analysis)
    /\ pc = "context" => ExclusiveImpliesMutable(context.analysis_result)

(***************************************************************************)
(* Lowering and emission of modules given as syntax trees                  *)
(***************************************************************************)
\* Bound: the number of statements of a lowered function body
MaxLowStmts == 3

\* let s = 1; let t = s; let u = s; let s = s; if c { let u = s; };
\* { let u = s; }; if c { } else { let u = s; }
LowStmt ==
    { LetVar("s", IntLit(1)),
      LetVar("t", Var("s")),
      LetVar("u", Var("s")),
      LetVar("s", Var("s")),
      StmtIf(Var("c"), Block(<<LetVar("u", Var("s"))>>), None),
      StmtExpr(ExprBlock(Block(<<LetVar("u", Var("s"))>>))),
      StmtIf(Var("c"), Block(<< >>), Block(<<LetVar("u", Var("s"))>>)) }

LowBodies == UNION { [1..n -> LowStmt] : n \in 0..MaxLowStmts }

LowModules == { Module(<<FunctionDef("f", << >>, None, Block(b))>>) : b \in LowBodies }

LowerInit ==
    /\ pc = "lower"
    /\ ast \in LowModules
    /\ ir = None
    /\ cg = None
    /\ rust_code = None
    /\ analysis = Unused
    /\ body_context = Unused
    /\ input_file = Unused
    /\ output_file = Unused
    /\ source = Unused
    /\ result = Unused
    /\ stages = << >>
    /\ context = Unused
    /\ method = Unused

\* lowering::lower_module(&module)
LowerModule ==
    /\ pc = "lower"
    /\ ir' = lower_module(ast)
    /\ pc' = "lowered"
    /\ UNCHANGED << input_file, output_file, source, ast, analysis, body_context,
                    cg, rust_code, result, stages, context, method >>

\* codegen::generate_rust_code(&ir, &mut CodegenContext::new())
EmitModule ==
    /\ pc = "lowered"
    /\ IsOk(ir)
    /\ LET g == generate_rust_code(ir.value, NewCodegenContext)
       IN  /\ cg' = g.ctx
           /\ rust_code' = g.output
    /\ pc' = "emitted"
    /\ UNCHANGED << input_file, output_file, source, ast, analysis, body_context,
                    ir, result, stages, context, method >>

LowerNext ==
    \/ LowerModule
    \/ EmitModule

SpecLower == LowerInit /\ [][LowerNext]_vars

\* A Let that binds a name to the bare variable v
IsBareUse(stmt, v) ==
    /\ stmt.kind = "Let"
    /\ stmt.pattern.kind = "Variable"
    /\ stmt.value.kind = "Variable"
    /\ stmt.value.name = v

\* The rule as stated: an earlier Let of the block has the same bare variable
\* as its value.
EarlierUseRule(stmts, i) ==
    /\ stmts[i].kind = "Let"
    /\ stmts[i].pattern.kind = "Variable"
    /\ stmts[i].value.kind = "Variable"
    /\ \E j \in 1..(i - 1) :
          /\ stmts[j].kind = "Let"
          /\ stmts[j].value = stmts[i].value

\* The rule with re-binding: an earlier Let of the block moved the variable
\* into another name, and no Let between the two binds the variable again.
LiveMoveRule(stmts, i) ==
    /\ stmts[i].kind = "Let"
    /\ stmts[i].pattern.kind = "Variable"
    /\ stmts[i].value.kind = "Variable"
    /\ \E j \in 1..(i - 1) :
          /\ IsBareUse(stmts[j], stmts[i].value.name)
          /\ stmts[j].pattern.name # stmts[i].value.name
          /\ \A k \in (j + 1)..(i - 1) : ~BindsName(stmts[k], stmts[i].value.name)

Rule(rule, stmts, i) ==
    IF rule = "earlier use" THEN EarlierUseRule(stmts, i) ELSE LiveMoveRule(stmts, i)

\* For the Lets of a block and of the blocks nested in it, in the order of
\* the text: whether the rule, applied to the Let's own block, asks for a copy.
RECURSIVE BlockFlags(_, _, _)
BlockFlags(rule, stmts, i) ==
    IF i > Len(stmts) THEN << >>
    ELSE (CASE stmts[i].kind = "Let" -> << Rule(rule, stmts, i) >>
            [] stmts[i].kind = "If" ->
                  BlockFlags(rule, stmts[i].then_branch.stmts, 1)
                  \o (IF stmts[i].else_branch # None
                      THEN BlockFlags(rule, stmts[i].else_branch.stmts, 1)
                      ELSE << >>)
            [] stmts[i].kind = "Expr" /\ stmts[i].expr.kind = "Block" ->
                  BlockFlags(rule, stmts[i].expr.block.stmts, 1)
            [] OTHER -> << >>)
         \o BlockFlags(rule, stmts, i + 1)

\* The lowered Lets of a lowered block and of the blocks nested in it, in the
\* order of the text.
RECURSIVE LoweredLets(_)
LoweredLets(stmts) ==
    IF stmts = << >> THEN << >>
    ELSE (CASE Head(stmts).kind = "Let" -> << Head(stmts) >>
            [] Head(stmts).kind = "If" ->
                  LoweredLets(Head(stmts).then_branch.stmts)
                  \o (IF Head(stmts).else_branch # None
                      THEN LoweredLets(Head(stmts).else_branch.stmts)
                      ELSE << >>)
            [] Head(stmts).kind = "Expr" /\ Head(stmts).expr.kind = "Block" ->
                  LoweredLets(Head(stmts).expr.block.stmts)
            [] OTHER -> << >>)
         \o LoweredLets(Tail(stmts))

\* The first place at or after from where pat occurs in text, or 0.
RECURSIVE Find(_, _, _)
Find(text, pat, from) ==
    IF from + Len(pat) - 1 > Len(text) THEN 0
    ELSE IF SubSeq(text, from, from + Len(pat) - 1) = pat THEN from
    ELSE Find(text, pat, from + 1)

EndsWith(text, suffix) ==
    /\ Len(suffix) <= Len(text)
    /\ SubSeq(text, Len(text) - Len(suffix) + 1, Len(text)) = suffix

\* The let statements of an emitted text, each from `let` up to its `;`.
RECURSIVE LetSegments(_, _)
LetSegments(text, from) ==
    IF Find(text, "let ", from) = 0 THEN << >>
    ELSE << SubSeq(text, Find(text, "let ", from),
                   Find(text, ";", Find(text, "let ", from)) - 1) >>
         \o LetSegments(text, Find(text, ";", Find(text, "let ", from)))

\* The lowered Lets carry the flags, and the emitted let statements end in
\* `.clone()` exactly where the flag is set.
ClonesAre(flags) ==
    /\ pc \in {"lowered", "emitted"} =>
          /\ Len(LoweredLets(ir.value.items[1].body.stmts)) = Len(flags)
          /\ \A k \in 1..Len(flags) :
                LoweredLets(ir.value.items[1].body.stmts)[k].needs_clone = flags[k]
    /\ pc = "emitted" =>
          /\ Len(LetSegments(rust_code, 1)) = Len(flags)
          /\ \A k \in 1..Len(flags) :
                /\ EndsWith(LetSegments(rust_code, 1)[k], ".clone()") <=> flags[k]
                /\ flags[k] =>
                      LetSegments(rust_code, 1)[k] =
                          "let " \o LoweredLets(ir.value.items[1].body.stmts)[k].name
                          \o " = "
                          \o LoweredLets(ir.value.items[1].body.stmts)[k].value.name
                          \o ".clone()"

\* C6 as stated: needs_clone is set on a Let with a variable pattern exactly
\* when its value is a bare variable v and an earlier Let of the same block
\* had the bare variable v as its value, and exactly those Lets are emitted
\* with `.clone()` appended to v.
C6_CloneAfterEarlierUse ==
    ClonesAre(BlockFlags("earlier use", ast.items[1].body.stmts, 1))

\* C6 amended: needs_clone is set on a Let with a variable pattern exactly
\* when its value is a bare variable v, an earlier Let of the same block
\* bound another name to the bare variable v, and no Let between the two
\* binds v again; exactly those Lets are emitted with `.clone()` appended.
C6_CloneAfterLiveMove ==
    ClonesAre(BlockFlags("live move", ast.items[1].body.stmts, 1))

\* C6 witness: let s = 1; let t = s; let u = s; was emitted with the copy on
\* the third statement only
C6_Witness ==
    /\ pc = "emitted"
    /\ ast.items[1].body.stmts =
          <<LetVar("s", IntLit(1)), LetVar("t", Var("s")), LetVar("u", Var("s"))>>
    /\ LetSegments(rust_code, 1) = <<"let s = 1", "let t = s", "let u = s.clone()">>

\* For the Lets of a block and of the blocks nested in it, in the order of
\* the text: whether the Let's value is a variable that a Let earlier in the
\* scope chain (the block itself or a block around it) has moved.
RECURSIVE ChainFlags(_, _)
ChainFlags(stmts, moved) ==
    IF stmts = << >> THEN << >>
    ELSE CASE Head(stmts).kind = "Let" ->
                << /\ Head(stmts).value.kind = "Variable"
                   /\ Head(stmts).value.name \in moved >>
                \o ChainFlags(Tail(stmts),
                      (IF /\ Head(stmts).value.kind = "Variable"
                          /\ Head(stmts).value.name # Head(stmts).pattern.name
                       THEN moved \cup {Head(stmts).value.name} ELSE moved)
                      \ {Head(stmts).pattern.name})
           [] Head(stmts).kind = "If" ->
                ChainFlags(Head(stmts).then_branch.stmts, moved)
                \o (IF Head(stmts).else_branch # None
                    THEN ChainFlags(Head(stmts).else_branch.stmts, moved)
                    ELSE << >>)
                \o ChainFlags(Tail(stmts), moved)
           [] Head(stmts).kind = "Expr" /\ Head(stmts).expr.kind = "Block" ->
                ChainFlags(Head(stmts).expr.block.stmts, moved)
                \o ChainFlags(Tail(stmts), moved)
           [] OTHER -> ChainFlags(Tail(stmts), moved)

\* C7: when a bare-variable Let has moved v, a later bare-variable Let of v
\* anywhere in the same scope chain, also inside the then- or else-block of a
\* following If or inside a nested block expression, is lowered with
\* needs_clone set and emitted as v.clone(); the earlier move has no copy.
C7_CloneAlongScopeChain ==
    ClonesAre(ChainFlags(ast.items[1].body.stmts, {}))

(***************************************************************************)
(* Classification of method names                                          *)
(***************************************************************************)
MethodBases ==
    ListedMutatingNames \cup ListedMutatingPrefixes
    \cup {"len", "get", "iter", "contains", "clone", "is_empty", "map", "sorted"}

MethodSuffixes == {"", "_all", "_by"}

MethodNames == { b \o x : b \in MethodBases, x \in MethodSuffixes }

MethodInit ==
    /\ pc = "classify"
    /\ method \in MethodNames
    /\ result = None
    /\ context = analyze_params(<<Param("v", None)>>, NewContext)
    /\ stages = << >>
    /\ analysis = Unused
    /\ body_context = Unused
    /\ input_file = Unused
    /\ output_file = Unused
    /\ source = Unused
    /\ ast = Unused
    /\ ir = Unused
    /\ cg = Unused
    /\ rust_code = Unused

\* is_mutating_method_name(method), and detect_assignment_in_expr on the call
\* v.method() in the context of a function with the parameter v
ClassifyMethod ==
    /\ pc = "classify"
    /\ result' = is_mutating_method_name(method)
    /\ context' = detect_assignment_in_expr(MethodCall("v", method, << >>), context)
    /\ pc' = "classified"
    /\ UNCHANGED << input_file, output_file, source, ast, analysis, body_context,
                    ir, cg, rust_code, stages, method >>

MethodNext == ClassifyMethod

SpecMethod == MethodInit /\ [][MethodNext]_vars

\* C9: the receiver v of a call v.f(...) is classified as mutably used
\* exactly when f is one of the eighteen listed names or begins with one of
\* the nine listed prefixes; is_mutating_method_name is true for precisely
\* these names.
C9_MutatingNamesAsListed ==
    pc = "classified" =>
        /\ result <=> ListedAsMutating(method)
        /\ "v" \in context.analysis_result.mutable_vars <=> ListedAsMutating(method)

(***************************************************************************)
(* Emission of a variable read                                             *)
(***************************************************************************)
EmitNames == {"n", "v"}

EmitAnalyses ==
    { [EmptyAnalysis EXCEPT !.immut_borrowed_vars = i, !.mut_borrowed_vars = m,
                            !.borrow_graph = g, !.string_converted_vars = c] :
        i \in SUBSET EmitNames, m \in SUBSET EmitNames,
        g \in {{}, {<<"n", <<"m">> >>}}, c \in SUBSET {"n"} }

\* The context generate_rust_code holds inside a function: made by new or by
\* with_analysis, with current_function set.
EmitContexts ==
    { [c EXCEPT !.current_function = f] :
        c \in {NewCodegenContext} \cup { with_analysis(a) : a \in EmitAnalyses },
        f \in {Some("f"), Some("test_mutable_borrow")} }

EmitInit ==
    /\ pc = "emit_variable"
    /\ ir \in { [kind |-> "Variable", name |-> n] : n \in EmitNames }
    /\ cg \in EmitContexts
    /\ rust_code = None
    /\ stages = << >>
    /\ analysis = Unused
    /\ body_context = Unused
    /\ input_file = Unused
    /\ output_file = Unused
    /\ source = Unused
    /\ ast = Unused
    /\ result = Unused
    /\ context = Unused
    /\ method = Unused

\* generate_expr(&LoweredExpr::Variable(name), &mut ctx, &mut output)
EmitVariable ==
    /\ pc = "emit_variable"
    /\ LET g == generate_expr(ir, [ctx |-> cg, output |-> ""])
       IN  /\ cg' = g.ctx
           /\ rust_code' = g.output
    /\ pc' = "variable_emitted"
    /\ UNCHANGED << input_file, output_file, source, ast, analysis, body_context,
                    ir, result, stages, context, method >>

EmitNext == EmitVariable

SpecEmit == EmitInit /\ [][EmitNext]_vars

\* The sets of the analysis the emitter holds; empty when it holds none.
EmitterAnalysis ==
    IF cg.analysis_result = None THEN EmptyAnalysis ELSE cg.analysis_result

\* C10: a variable read of n is emitted as `&mut n` if n is in the
\* exclusive-borrowed set; otherwise as `&n` if n is in the shared-borrowed
\* set or is a key of the borrow graph; otherwise as `n`, followed by
\* `.to_string()` when n is in the string-converted variable set.  A name in
\* both borrow sets is emitted as `&mut n`.
C10_VariableReadOrder ==
    pc = "variable_emitted" =>
        rust_code =
            IF ir.name \in EmitterAnalysis.mut_borrowed_vars
            THEN "&mut " \o ir.name
            ELSE IF \/ ir.name \in EmitterAnalysis.immut_borrowed_vars
                    \/ \E e \in EmitterAnalysis.borrow_graph : e[1] = ir.name
            THEN "&" \o ir.name
            ELSE IF ir.name \in EmitterAnalysis.string_converted_vars
            THEN ir.name \o ".to_string()"
            ELSE ir.name

(***************************************************************************)
(* Emission of function signatures: a module given as a syntax tree goes   *)
(* through lower_module and generate_rust_code, a module given as IR goes  *)
(* through generate_rust_code.                                             *)
(***************************************************************************)
\* Bound: the number of parameters of a function
MaxSigParams == 2

\* LoweredType::Reference(inner, lifetime), as codegen.rs matches it
LoweredReference(inner, lifetime) ==
    [kind |-> "Reference", inner |-> inner, lifetime |-> lifetime]

\* LoweredType::Option(inner), as codegen.rs matches it
LoweredOption(inner) == [kind |-> "Option", inner |-> inner]

\* LoweredType::Result(ok, err), as codegen.rs matches it
LoweredResult(ok, err) == [kind |-> "Result", ok |-> ok, err |-> err]

SigParamNames == <<"x", "y", "z", "w">>

\* i32, &i32, &'b i32, &'a &'b i32, Option<&i32> and the legacy form of &i32
SigIrTypes ==
    { LoweredNamed("i32", << >>),
      LoweredReference(LoweredNamed("i32", << >>), None),
      LoweredReference(LoweredNamed("i32", << >>), Some("b")),
      LoweredReference(LoweredReference(LoweredNamed("i32", << >>), Some("b")),
                       Some("a")),
      LoweredOption(LoweredReference(LoweredNamed("i32", << >>), None)),
      LoweredNamed("&", <<LoweredNamed("i32", << >>)>>) }

SigIrFunctions ==
    { [kind |-> "Function", name |-> "get_ref",
       params |-> [i \in 1..Len(tys) |->
                       [name |-> SigParamNames[i], ty |-> tys[i]]],
       ret_type |-> ret, body |-> Block(<< >>)] :
        tys \in UNION { [1..n -> SigIrTypes] : n \in 0..MaxSigParams },
        ret \in SigIrTypes \cup {None} }

\* i32 and &i32 as the syntax tree writes them
SigAstTypes ==
    { TypeNamed("i32", << >>), TypeNamed("&", <<TypeNamed("i32", << >>)>>) }

SigAstFunctions ==
    { FunctionDef("get_ref",
                  [i \in 1..Len(tys) |-> Param(SigParamNames[i], tys[i])],
                  ret, Block(<< >>)) :
        tys \in UNION { [1..n -> SigAstTypes] : n \in 0..MaxSigParams },
        ret \in SigAstTypes \cup {None} }

SigInit ==
    /\ \/ /\ pc = "lower"
          /\ ast \in { Module(<<f>>) : f \in SigAstFunctions }
          /\ ir = None
       \/ /\ pc = "lowered"
          /\ ast = Unused
          /\ ir \in { Ok([items |-> <<f>>]) : f \in SigIrFunctions }
    /\ cg = None
    /\ rust_code = None
    /\ analysis = Unused
    /\ body_context = Unused
    /\ input_file = Unused
    /\ output_file = Unused
    /\ source = Unused
    /\ result = Unused
    /\ stages = << >>
    /\ context = Unused
    /\ method = Unused

SpecSig == SigInit /\ [][LowerNext]_vars

\* The one function of the emitted module.
SigFunc == ir.value.items[1]

\* A reference type, in either form.
IsRefType(ty) ==
    ty.kind = "Reference" \/ (ty.kind = "Named" /\ ty.name = "&")

\* The types directly inside a type.
TypeParts(ty) ==
    CASE ty.kind = "Reference" -> <<ty.inner>>
      [] ty.kind = "Option" -> <<ty.inner>>
      [] ty.kind = "Array" -> <<ty.inner>>
      [] ty.kind = "Result" -> <<ty.ok, ty.err>>
      [] ty.kind = "Tuple" -> ty.types
      [] ty.kind = "Named" -> ty.params

\* Whether a type contains a reference that names no lifetime.
RECURSIVE HasBareRef(_)
HasBareRef(ty) ==
    \/ ty.kind = "Reference" /\ ty.lifetime = None
    \/ ty.kind = "Named" /\ ty.name = "&"
    \/ \E i \in 1..Len(TypeParts(ty)) : HasBareRef(TypeParts(ty)[i])

\* The text of a type in which every reference that names no lifetime has 'a.
RECURSIVE TypeTextWithA(_)
RECURSIVE TypeListTextWithA(_)
TypeTextWithA(ty) ==
    CASE ty.kind = "Reference" ->
            "&'" \o (IF ty.lifetime = None THEN "a" ELSE ty.lifetime.value)
                 \o " " \o TypeTextWithA(ty.inner)
      [] ty.kind = "Named" /\ ty.name = "&" ->
            "&'a " \o TypeListTextWithA(ty.params)
      [] ty.kind = "Named" ->
            ty.name \o (IF ty.params = << >> THEN ""
                        ELSE "<" \o TypeListTextWithA(ty.params) \o ">")
      [] ty.kind = "Option" -> "Option<" \o TypeTextWithA(ty.inner) \o ">"
      [] ty.kind = "Result" ->
            "Result<" \o TypeTextWithA(ty.ok) \o ", " \o TypeTextWithA(ty.err) \o ">"
      [] ty.kind = "Tuple" -> "(" \o TypeListTextWithA(ty.types) \o ")"
      [] ty.kind = "Array" -> "[" \o TypeTextWithA(ty.inner) \o "]"

TypeListTextWithA(tys) ==
    IF tys = << >> THEN ""
    ELSE TypeTextWithA(Head(tys))
             \o (IF Len(tys) > 1 THEN ", " ELSE "")
             \o TypeListTextWithA(Tail(tys))

RECURSIVE ParamsTextWithA(_)
ParamsTextWithA(params) ==
    IF params = << >> THEN ""
    ELSE Head(params).name \o ": "
             \o (IF Head(params).ty = None THEN "i32"
                 ELSE TypeTextWithA(Head(params).ty))
             \o (IF Len(params) > 1 THEN ", " ELSE "")
             \o ParamsTextWithA(Tail(params))

\* The lifetime lists a signature over 'a and 'b can declare.
LifetimeLists == { <<"a">>, <<"b">>, <<"a", "b">>, <<"b", "a">> }

\* C11: when the return type contains a reference that names no lifetime and
\* at least one parameter is a reference, the emitted signature declares 'a
\* and every reference of the parameter types and of the return type that
\* names no lifetime is emitted with 'a, the others keep theirs
\* (`fn get_ref<'a>(x: &'a i32) -> &'a i32`).
C11_FreshLifetimeOnEveryBareRef ==
    ( /\ pc = "emitted"
      /\ SigFunc.ret_type # None
      /\ HasBareRef(SigFunc.ret_type)
      /\ \E i \in 1..Len(SigFunc.params) :
            SigFunc.params[i].ty # None /\ IsRefType(SigFunc.params[i].ty) )
    => \E l \in LifetimeLists :
          /\ \E i \in 1..Len(l) : l[i] = "a"
          /\ rust_code = "fn " \o SigFunc.name
                             \o "<" \o LifetimeList(l) \o ">"
                             \o "(" \o ParamsTextWithA(SigFunc.params) \o ")"
                             \o " -> " \o TypeTextWithA(SigFunc.ret_type)
                             \o " {\n}\n\n"

\* A sequence with x added at the end unless it is in it.
AddOnce(out, x) ==
    IF \E i \in 1..Len(out) : out[i] = x THEN out ELSE Append(out, x)

\* The lifetimes that the references of a type name, left to right, each once,
\* after those of out.
RECURSIVE NamedLifetimes(_, _)
RECURSIVE NamedLifetimesAll(_, _)
NamedLifetimes(ty, out) ==
    NamedLifetimesAll(TypeParts(ty),
        IF ty.kind = "Reference" /\ ty.lifetime # None
        THEN AddOnce(out, ty.lifetime.value) ELSE out)

NamedLifetimesAll(tys, out) ==
    IF tys = << >> THEN out
    ELSE NamedLifetimesAll(Tail(tys), NamedLifetimes(Head(tys), out))

\* The types of a signature: those of the parameters, then the return type.
RECURSIVE ParamTypes(_)
ParamTypes(params) ==
    IF params = << >> THEN << >>
    ELSE (IF Head(params).ty = None THEN << >> ELSE <<Head(params).ty>>)
             \o ParamTypes(Tail(params))

SignatureTypes(func) ==
    ParamTypes(func.params)
        \o (IF func.ret_type = None THEN << >> ELSE <<func.ret_type>>)

\* The text between the function's name and its parameter list.
GenericsText(lifetimes) ==
    IF lifetimes = << >> THEN "" ELSE "<" \o LifetimeList(lifetimes) \o ">"

\* C12: the lifetime list of an emitted signature holds every lifetime that
\* the parameter types and then the return type name, each once, in
\* first-seen order; 'a is added by default only when they name none.
C12_LifetimeListFirstSeen ==
    pc = "emitted" =>
        LET named == NamedLifetimesAll(SignatureTypes(SigFunc), << >>)
        IN  \E l \in (IF named = << >> THEN {<< >>, <<"a">>} ELSE {named}) :
                starts_with(rust_code,
                            "fn " \o SigFunc.name \o GenericsText(l) \o "(")

(***************************************************************************)
(* Propagation (`?`): modules given as syntax trees with Expr::Try nodes   *)
(* and Result / Option return types, through lower_module and              *)
(* generate_rust_code.                                                     *)
(***************************************************************************)
\* Bound: the number of statements of a function body with `?`
MaxTryStmts == 2

\* ast::Expr::Try
ExprTry(expr, span) == [kind |-> "Try", expr |-> expr, span |-> span]

\* ast::Type::Option
TypeOption(inner) == [kind |-> "Option", inner |-> inner]

\* ast::Type::Result
TypeResult(ok, err) == [kind |-> "Result", ok |-> ok, err |-> err]

\* let v = get_val()?;  get_val()?;  return get_val()?;  use(get_val()?);
\* let v = get_val();  return v;
TryStmt ==
    { LetVar("v", ExprTry(FnCall("get_val", << >>), NoSpan)),
      StmtExpr(ExprTry(FnCall("get_val", << >>), NoSpan)),
      StmtReturn(ExprTry(FnCall("get_val", << >>), NoSpan)),
      StmtExpr(FnCall("use", <<ExprTry(FnCall("get_val", << >>), NoSpan)>>)),
      LetVar("v", FnCall("get_val", << >>)),
      StmtReturn(Var("v")) }

\* no return type, i32, Result<i32, String> and Option<i32> as Type::Result and
\* Type::Option, and Result<i32, String> as a named type
TryRetTypes ==
    { None,
      TypeNamed("i32", << >>),
      TypeResult(TypeNamed("i32", << >>), TypeNamed("String", << >>)),
      TypeOption(TypeNamed("i32", << >>)),
      TypeNamed("Result", <<TypeNamed("i32", << >>), TypeNamed("String", << >>)>>) }

TryModules ==
    { Module(<<FunctionDef("wrapper", << >>, ret, Block(b))>>) :
        ret \in TryRetTypes,
        b \in UNION { [1..n -> TryStmt] : n \in 0..MaxTryStmts } }

TryInit ==
    /\ pc = "lower"
    /\ ast \in TryModules
    /\ ir = None
    /\ cg = None
    /\ rust_code = None
    /\ analysis = Unused
    /\ body_context = Unused
    /\ input_file = Unused
    /\ output_file = Unused
    /\ source = Unused
    /\ result = Unused
    /\ stages = << >>
    /\ context = Unused
    /\ method = Unused

SpecTry == TryInit /\ [][LowerNext]_vars

\* Whether an expression, a statement, a block holds a `?`.
RECURSIVE ExprHasTry(_)
ExprHasTry(expr) ==
    CASE expr.kind = "Try" -> TRUE
      [] expr.kind = "Call" ->
            \/ ExprHasTry(expr.func)
            \/ \E i \in 1..Len(expr.args) : ExprHasTry(expr.args[i])
      [] OTHER -> FALSE

StmtHasTry(stmt) ==
    CASE stmt.kind = "Let" -> ExprHasTry(stmt.value)
      [] stmt.kind = "Expr" -> ExprHasTry(stmt.expr)
      [] stmt.kind = "Return" -> stmt.expr # None /\ ExprHasTry(stmt.expr)
      [] OTHER -> FALSE

BlockHasTry(block) == \E i \in 1..Len(block.stmts) : StmtHasTry(block.stmts[i])

\* Whether the declared return type of a function is Result or Option.
IsFallible(func) ==
    /\ func.ret_type # None
    /\ \/ func.ret_type.kind \in {"Result", "Option"}
       \/ func.ret_type.kind = "Named" /\ func.ret_type.name \in {"Result", "Option"}

\* The inference error of a `?` outside a fallible function.
PropagateOutsideFallible == Err([kind |-> "PropagateOutsideFallible"])

\* C13: a `?` inside a function whose declared return type is neither Result
\* nor Option makes the pipeline return the inference error
\* PropagateOutsideFallible; nothing is emitted for it.
C13_PropagateOutsideFallibleReported ==
    ( /\ pc # "lower"
      /\ BlockHasTry(ast.items[1].body)
      /\ ~IsFallible(ast.items[1]) )
    => /\ ir = PropagateOutsideFallible
       /\ pc = "lowered"

\* Whether the text sub occurs in the text s.
Contains(s, sub) ==
    \E i \in 1..(Len(s) - Len(sub) + 1) : SubSeq(s, i, i + Len(sub) - 1) = sub

\* The text of the return types of TryRetTypes.
RetTypeText(ty) ==
    IF ty.kind = "Option" THEN "Option<i32>" ELSE "Result<i32, String>"

\* C14: in a function whose declared return type is Result or Option, a `?`
\* over e lowers without error and is emitted as the text of e followed by
\* `?` (`get_val()?`), and the emitted signature carries the return type.
C14_PropagateInFallibleEmitted ==
    ( /\ pc # "lower"
      /\ BlockHasTry(ast.items[1].body)
      /\ IsFallible(ast.items[1]) )
    => /\ IsOk(ir)
       /\ pc = "emitted" =>
            /\ Contains(rust_code, "get_val()?")
            /\ Contains(rust_code,
                        "fn wrapper() -> " \o RetTypeText(ast.items[1].ret_type))

(***************************************************************************)
(* Function names                                                          *)
(***************************************************************************)
\* A module of one function with the function's name replaced.
Renamed(module, name) == [module EXCEPT !.items[1].name = name]

\* What lower_module and generate_rust_code, with the analysis given to the
\* emitter, make of a module of one function: the text after `fn <name>`, or
\* the error of lowering.
TextAfterName(module, a) ==
    LET lowered == lower_module(module)
        text == generate_rust_code(lowered.value, with_analysis(a)).output
    IN  IF IsOk(lowered)
        THEN SubSeq(text, Len("fn " \o module.items[1].name) + 1, Len(text))
        ELSE lowered

\* C15: a module and the same module with its function named f get the same
\* sets from analyze_module and, apart from the name, the same emitted text
\* (the same mut, & and &mut decisions).
C15_FunctionNameIrrelevant ==
    pc = "analyzed" =>
        /\ analysis = analyze_module(Renamed(ast, "f"))
        /\ TextAfterName(ast, analysis)
              = TextAfterName(Renamed(ast, "f"), analyze_module(Renamed(ast, "f")))

(***************************************************************************)
(* The analysis result inside transpile_source                             *)
(***************************************************************************)
\* C16: the analysis result of a transpile_source call, once produced, is not
\* modified, and it is the result the emitter works with: the context that
\* generate_rust_code ran with holds it.
C16_OneAnalysisConsumed ==
    /\ [][analysis # None => analysis' = analysis]_vars
    /\ [](cg # None => cg.analysis_result = analysis)

(***************************************************************************)
(* Ownership inference on function bodies with string values               *)
(***************************************************************************)
\* Bound: the number of statements of an analysed body with string values
MaxStrStmts == 2

StrFuncNames == {"f", "test_string_conversion"}

\* let s: String = "hi"; let t = "x"; let u: String = concat("a", v);
\* ref(v); v.len; "a" + v; let w = v + "b"; "a" + "b"; let n = v + v;
\* every expression has a span of its own
StrStmt ==
    { StmtLet(PatVariable("s"), ExprLiteral(Lit("String", "hi"), Span(1, 2)),
              TypeNamed("String", << >>), Span(1, 3)),
      StmtLet(PatVariable("t"), ExprLiteral(Lit("String", "x"), Span(4, 5)),
              None, Span(4, 6)),
      StmtLet(PatVariable("u"),
              ExprCall(ExprVariable("concat", Span(7, 8)),
                       <<ExprLiteral(Lit("String", "a"), Span(8, 9)),
                         ExprVariable("v", Span(9, 10))>>, Span(7, 10)),
              TypeNamed("String", << >>), Span(7, 11)),
      StmtExpr(ExprCall(ExprVariable("ref", Span(12, 13)),
                        <<ExprVariable("v", Span(13, 14))>>, Span(12, 14))),
      StmtExpr(ExprFieldAccess(ExprVariable("v", Span(15, 16)), "len",
                               Span(15, 17))),
      StmtExpr(ExprCall(ExprVariable("+", Span(18, 19)),
                        <<ExprLiteral(Lit("String", "a"), Span(19, 20)),
                          ExprVariable("v", Span(20, 21))>>, Span(18, 21))),
      StmtLet(PatVariable("w"),
              ExprCall(ExprVariable("+", Span(22, 23)),
                       <<ExprVariable("v", Span(23, 24)),
                         ExprLiteral(Lit("String", "b"), Span(24, 25))>>,
                       Span(22, 25)),
              None, Span(22, 26)),
      StmtExpr(ExprCall(ExprVariable("+", Span(27, 28)),
                        <<ExprLiteral(Lit("String", "a"), Span(28, 29)),
                          ExprLiteral(Lit("String", "b"), Span(29, 30))>>,
                        Span(27, 30))),
      StmtLet(PatVariable("n"),
              ExprCall(ExprVariable("+", Span(31, 32)),
                       <<ExprVariable("v", Span(32, 33)),
                         ExprVariable("v", Span(33, 34))>>, Span(31, 34)),
              None, Span(31, 35)) }

StrBodies == UNION { [1..n -> StrStmt] : n \in 0..MaxStrStmts }

StrModules ==
    { Module(<<FunctionDef(n, <<Param("v", None)>>, None, Block(b))>>) :
        n \in StrFuncNames, b \in StrBodies }

StringsInit ==
    /\ pc = "analyze"
    /\ ast \in StrModules
    /\ analysis = None
    /\ body_context = None
    /\ ir = None
    /\ cg = None
    /\ rust_code = None
    /\ input_file = Unused
    /\ output_file = Unused
    /\ source = Unused
    /\ result = Unused
    /\ stages = << >>
    /\ context = Unused
    /\ method = Unused

\* ownership_inference.analyze_module(&module), the first step of the string
\* conversion tests; lower_module(&module) comes next.
AnalyzeStrings ==
    /\ pc = "analyze"
    /\ analysis' = analyze_module(ast)
    /\ body_context' = FunctionBodyContext(ast.items[1], NewContext)
    /\ pc' = "lower"
    /\ UNCHANGED << input_file, output_file, source, ast, ir, cg, rust_code,
                    result, stages, context, method >>

\* generate_rust_code(&lowered, &mut CodegenContext::with_analysis(analysis_result))
EmitWithAnalysis ==
    /\ pc = "lowered"
    /\ IsOk(ir)
    /\ LET g == generate_rust_code(ir.value, with_analysis(analysis))
       IN  /\ cg' = g.ctx
           /\ rust_code' = g.output
    /\ pc' = "emitted"
    /\ UNCHANGED << input_file, output_file, source, ast, analysis, body_context,
                    ir, result, stages, context, method >>

StringsNext ==
    \/ AnalyzeStrings
    \/ LowerModule
    \/ EmitWithAnalysis
    \/ EmitModule

SpecStrings == StringsInit /\ [][StringsNext]_vars

\* The spans of an expression and of every expression inside it.
RECURSIVE ExprSpans(_)
ExprSpans(expr) ==
    CASE expr.kind = "Call" ->
            {expr.span} \cup ExprSpans(expr.func)
                \cup UNION { ExprSpans(expr.args[i]) : i \in 1..Len(expr.args) }
      [] expr.kind = "FieldAccess" -> {expr.span} \cup ExprSpans(expr.base)
      [] OTHER -> {expr.span}

\* The spans of the two sides of every `+` call with two arguments in expr.
RECURSIVE ConcatSideSpans(_)
ConcatSideSpans(expr) ==
    CASE expr.kind = "Call" ->
            (IF expr.func.kind = "Variable" /\ expr.func.name = "+"
                /\ Len(expr.args) = 2
             THEN {expr.args[1].span, expr.args[2].span} ELSE {})
                \cup ConcatSideSpans(expr.func)
                \cup UNION { ConcatSideSpans(expr.args[i]) :
                               i \in 1..Len(expr.args) }
      [] expr.kind = "FieldAccess" -> ConcatSideSpans(expr.base)
      [] OTHER -> {}

IsStringLet(stmt) ==
    /\ stmt.kind = "Let"
    /\ stmt.ty # None
    /\ stmt.ty.kind = "Named"
    /\ stmt.ty.name = "String"

\* The spans the statement names: under a Let of declared type String, or a
\* side of a `+` call.
StringSpansOfStmt(stmt) ==
    CASE stmt.kind = "Let" ->
            (IF IsStringLet(stmt) THEN ExprSpans(stmt.value) ELSE {})
                \cup ConcatSideSpans(stmt.value)
      [] stmt.kind = "Expr" -> ConcatSideSpans(stmt.expr)
      [] OTHER -> {}

StringSpansOfBody(func) ==
    UNION { StringSpansOfStmt(func.body.stmts[i]) :
              i \in 1..Len(func.body.stmts) }

\* C18: every span that the analysis puts in string_converted_exprs, in the
\* result it returns and in the result of the body's own context, is the span
\* of an expression under a Let of declared type String or of a side of a `+`
\* call of the analysed function; no other span is ever added.
C18_StringSpansOnlyFromStringLets ==
    pc # "analyze" =>
        /\ analysis.string_converted_exprs
               \subseteq StringSpansOfBody(ast.items[1])
        /\ body_context.analysis_result.string_converted_exprs
               \subseteq StringSpansOfBody(ast.items[1])

\* The statements of the emitted function body, each without its indentation
\* and its closing `;`.
RECURSIVE StatementTexts(_, _)
StatementTexts(text, from) ==
    IF Find(text, ";\n", from) = 0 THEN << >>
    ELSE << SubSeq(text, from + 4, Find(text, ";\n", from) - 1) >>
         \o StatementTexts(text, Find(text, ";\n", from) + 2)

EmittedStatements(text) == StatementTexts(text, Find(text, "{\n", 1) + 2)

IsStringLiteral(expr) == expr.kind = "Literal" /\ expr.lit.kind = "String"

IsConcatCall(expr) ==
    /\ expr.kind = "Call"
    /\ expr.func.kind = "Variable"
    /\ expr.func.name = "+"
    /\ Len(expr.args) = 2

\* The expression a statement of StrStmt holds.
StmtValue(stmt) == IF stmt.kind = "Let" THEN stmt.value ELSE stmt.expr

\* C19: the emitter appends `.to_string()` to the string-literal right-hand
\* side of a Let exactly when the Let's declared type is String; in a
\* statement without a `+` call no other string literal gets `.to_string()`,
\* whether or not the string-conversion sets of the context have entries.
C19_ToStringOnlyOnStringLet ==
    pc = "emitted" =>
        /\ Len(EmittedStatements(rust_code)) = Len(ast.items[1].body.stmts)
        /\ \A i \in 1..Len(ast.items[1].body.stmts) :
              LET stmt == ast.items[1].body.stmts[i]
                  text == EmittedStatements(rust_code)[i]
              IN  IF stmt.kind = "Let" /\ IsStringLiteral(stmt.value)
                  THEN /\ EndsWith(text, ".to_string()") <=> IsStringLet(stmt)
                       /\ EndsWith(text,
                             " = \"" \o stmt.value.lit.val \o "\""
                             \o (IF IsStringLet(stmt) THEN ".to_string()" ELSE ""))
                  ELSE ~IsConcatCall(StmtValue(stmt))
                          => ~Contains(text, "\".to_string()")

\* C19 witness: with entries in the string-conversion sets of the context,
\* let s: String = "hi"; let t = "x"; was emitted with the conversion on the
\* first statement only
C19_Witness ==
    /\ pc = "emitted"
    /\ cg.string_converted_exprs # {}
    /\ cg.string_converted_vars # {}
    /\ Len(ast.items[1].body.stmts) = 2
    /\ IsStringLet(ast.items[1].body.stmts[1])
    /\ IsStringLiteral(ast.items[1].body.stmts[1].value)
    /\ EmittedStatements(rust_code) =
          <<"let s: String = \"hi\".to_string()", "let t = \"x\"">>

\* The text of one side of an infix `+`, as the rule for `+` calls gives it.
ConcatSideText(expr) ==
    IF IsStringLiteral(expr) THEN "\"" \o expr.lit.val \o "\".to_string()"
    ELSE expr.name

\* C20: a call of `+` with two arguments is emitted infix as `<a> + <b>`,
\* with `.to_string()` appended to each side that is a string literal, the
\* left or the right, and to no other side.
C20_ConcatBothSidesConverted ==
    pc = "emitted" =>
        \A i \in 1..Len(ast.items[1].body.stmts) :
            LET stmt == ast.items[1].body.stmts[i]
                text == EmittedStatements(rust_code)[i]
            IN  IsConcatCall(StmtValue(stmt)) =>
                    EndsWith(text, ConcatSideText(StmtValue(stmt).args[1])
                                   \o " + "
                                   \o ConcatSideText(StmtValue(stmt).args[2]))

(***************************************************************************)
(* Statements with nested scopes analysed one after the other              *)
(***************************************************************************)
\* Bound: the number of statements analysed in the body context
MaxScopeStmts == 2

\* ref(v); v.push(1); let w = 2; let r = ref(v);
ScopeBodies ==
    { <<StmtExpr(FnCall("ref", <<Var("v")>>))>>,
      <<StmtExpr(MethodCall("v", "push", <<IntLit(1)>>))>>,
      <<LetVar("w", IntLit(2))>>,
      <<LetVar("r", FnCall("ref", <<Var("v")>>))>> }

\* let w = 1; ref(v); let r = ref(v); and, for each body b of ScopeBodies,
\* if c { b }; while c { b }; for i in it { b }; { b };
ScopeStmt ==
    { LetVar("w", IntLit(1)),
      StmtExpr(FnCall("ref", <<Var("v")>>)),
      LetVar("r", FnCall("ref", <<Var("v")>>)) }
    \cup { StmtIf(Var("c"), Block(b), None) : b \in ScopeBodies }
    \cup { StmtWhile(Var("c"), Block(b)) : b \in ScopeBodies }
    \cup { StmtFor(PatVariable("i"), Var("it"), Block(b)) : b \in ScopeBodies }
    \cup { StmtExpr(ExprBlock(Block(b))) : b \in ScopeBodies }

\* The context is the body context of a function f(v): a child of the
\* context in which the parameter v was declared.
ScopesInit ==
    /\ pc = "body"
    /\ context = with_parent(analyze_params(<<Param("v", None)>>, NewContext))
    /\ stages = << >>
    /\ analysis = Unused
    /\ body_context = Unused
    /\ input_file = Unused
    /\ output_file = Unused
    /\ source = Unused
    /\ ast = Unused
    /\ ir = Unused
    /\ cg = Unused
    /\ rust_code = Unused
    /\ result = Unused
    /\ method = Unused

\* One turn of the loop of analyze_function over the body's statements:
\* self.analyze_stmt(stmt, &mut body_context); stages records the statement.
AnalyzeBodyStmt ==
    /\ pc = "body"
    /\ Len(stages) < MaxScopeStmts
    /\ \E s \in ScopeStmt :
          /\ context' = analyze_stmt(s, context)
          /\ stages' = Append(stages, s)
    /\ UNCHANGED << pc, input_file, output_file, source, ast, analysis,
                    body_context, ir, cg, rust_code, result, method >>

SpecScopes == ScopesInit /\ [][AnalyzeBodyStmt]_vars

\* The statement that the step just taken has analysed.
LastStmt == stages'[Len(stages')]

\* The statements of the scope that an If, While or For statement or a block
\* expression statement opens.
NestedStmts(stmt) ==
    CASE stmt.kind = "If" -> stmt.then_branch.stmts
      [] stmt.kind \in {"While", "For"} -> stmt.body.stmts
      [] stmt.kind = "Expr" /\ stmt.expr.kind = "Block" -> stmt.expr.block.stmts
      [] OTHER -> << >>

\* The names on which the statements call a mutating method.
MutatedNames(stmts) ==
    { stmts[i].expr.func.base.name :
        i \in { j \in 1..Len(stmts) :
                  /\ stmts[j].kind = "Expr"
                  /\ stmts[j].expr.kind = "Call"
                  /\ stmts[j].expr.func.kind = "FieldAccess"
                  /\ stmts[j].expr.func.base.kind = "Variable"
                  /\ is_mutating_method_name(stmts[j].expr.func.field) } }

\* The names that a context and the contexts around it bind.
RECURSIVE VisibleNames(_)
VisibleNames(ctx) ==
    { b.name : b \in ctx.variables }
        \cup (IF ctx.parent # None THEN VisibleNames(ctx.parent) ELSE {})

\* C21: when an If, a While or a For statement has been analysed, every name
\* marked mutable inside it is in the parent scope's mutable set, and the
\* parent's shared-borrowed set, exclusive-borrowed set and the ownership
\* states of its bindings are as they were before the statement.
C21_BranchExitKeepsBorrows ==
    [][ LastStmt.kind \in {"If", "While", "For"} =>
          /\ MutatedNames(NestedStmts(LastStmt))
                \subseteq context'.analysis_result.mutable_vars
          /\ context'.analysis_result.immut_borrowed_vars
                = context.analysis_result.immut_borrowed_vars
          /\ context'.analysis_result.mut_borrowed_vars
                = context.analysis_result.mut_borrowed_vars
          /\ \A n \in VisibleNames(context) :
                lookup_variable(context', n).ownership
                    = lookup_variable(context, n).ownership ]_vars

\* The names that the Lets among the statements bind.
LetNames(stmts) ==
    { stmts[i].pattern.name :
        i \in { j \in 1..Len(stmts) :
                  stmts[j].kind = "Let" /\ stmts[j].pattern.kind = "Variable" } }

\* C22: a Let of a name n inside an If branch, a loop body or a block
\* expression shadows an outer binding of n: when the statement has been
\* analysed the outer binding's ownership state and mutability requirement
\* are what they were, and n is in the mutable set only if it was before.
C22_NestedLetShadows ==
    [][ \A n \in LetNames(NestedStmts(LastStmt)) \cap VisibleNames(context) :
          /\ lookup_variable(context', n) = lookup_variable(context, n)
          /\ n \in context'.analysis_result.mutable_vars
                => n \in context.analysis_result.mutable_vars ]_vars

\* Whether a binding is under a borrow.
Borrowed(info) == info.ownership \in {"BorrowedImmut", "BorrowedMut"}

\* C23: a borrow that no named binding stores ends with its statement: a
\* binding that was Owned before an expression statement is Owned after it;
\* a borrow stored by a Let inside an If branch, a loop body or a block
\* expression ends with that scope: a binding that was Owned before such a
\* statement is Owned after it.
C23_BorrowEndsWithStatement ==
    [][ (LastStmt.kind = "Expr" \/ NestedStmts(LastStmt) # << >>) =>
          \A n \in VisibleNames(context) :
              lookup_variable(context, n).ownership = "Owned"
                  => lookup_variable(context', n).ownership = "Owned" ]_vars

(***************************************************************************)
(* Modules of several items: analysis, lowering and emission               *)
(***************************************************************************)
\* Bound: the number of items of a module
MaxModItems == 2

StmtMatch(expr, arms) == [kind |-> "Match", expr |-> expr, arms |-> arms]

MatchArm(pattern, guard, expr) ==
    [pattern |-> pattern, guard |-> guard, expr |-> expr]

StmtTry(block, catch) == [kind |-> "Try", block |-> block, catch |-> catch]

DataDef(name, data_kind, members) ==
    [kind |-> "Data", name |-> name, data_kind |-> data_kind,
     fields |-> members, variants |-> members]

I32 == TypeNamed("i32", << >>)

\* fn main() { println("Hello, World!"); }
FnMain ==
    FunctionDef("main", << >>, None,
        Block(<<StmtExpr(FnCall("println",
                   <<ExprLiteral(Lit("String", "Hello, World!"), NoSpan)>>))>>))

\* fn push(v) { v.push(1); }
FnPush ==
    FunctionDef("push", <<Param("v", None)>>, None,
        Block(<<StmtExpr(MethodCall("v", "push", <<IntLit(1)>>))>>))

\* fn param(p: Option<i32>) { }
FnParam == FunctionDef("param", <<Param("p", TypeOption(I32))>>, None, Block(<< >>))

\* fn ret() -> Option<i32> { }
FnRet == FunctionDef("ret", << >>, TypeOption(I32), Block(<< >>))

\* fn tuple() { let (a, b) = t; }
FnTuple ==
    FunctionDef("tuple", << >>, None,
        Block(<<StmtLet(PatTuple(<<PatVariable("a"), PatVariable("b")>>),
                        Var("t"), None, NoSpan)>>))

\* fn branch() { if c { let a = 1; } else { return; } }
FnIf ==
    FunctionDef("branch", << >>, None,
        Block(<<StmtIf(Var("c"), Block(<<LetVar("a", IntLit(1))>>),
                       Block(<<StmtReturn(None)>>))>>))

\* fn loop_while() { while c { let a = 1; } }
FnWhile ==
    FunctionDef("loop_while", << >>, None,
        Block(<<StmtWhile(Var("c"), Block(<<LetVar("a", IntLit(1))>>))>>))

\* fn loop_for() { for i in it { let a = 1; } }
FnFor ==
    FunctionDef("loop_for", << >>, None,
        Block(<<StmtFor(PatVariable("i"), Var("it"),
                        Block(<<LetVar("a", IntLit(1))>>))>>))

\* fn choose() { match e { p => 1 } }
FnMatch ==
    FunctionDef("choose", << >>, None,
        Block(<<StmtMatch(Var("e"),
                          <<MatchArm(PatVariable("p"), None, IntLit(1))>>)>>))

\* fn question() { let a = e?; }
FnTry ==
    FunctionDef("question", << >>, None,
        Block(<<LetVar("a", ExprTry(Var("e"), NoSpan))>>))

\* fn attempt() { try { } }
FnTryStmt ==
    FunctionDef("attempt", << >>, None, Block(<<StmtTry(Block(<< >>), None)>>))

\* struct S { a: i32 }
DataStruct == DataDef("S", "Struct", <<[name |-> "a", ty |-> I32]>>)

\* a tagged union U with the variant (A, i32)
DataUnion == DataDef("U", "TaggedUnion", <<[tag |-> "A", ty |-> I32]>>)

ModItems ==
    { FnMain, FnPush, FnParam, FnRet, FnTuple, FnIf, FnWhile, FnFor, FnMatch,
      FnTry, FnTryStmt, DataStruct, DataUnion }

ModModules ==
    { Module(items) : items \in UNION { [1..n -> ModItems] : n \in 0..MaxModItems } }

ModulesInit ==
    /\ pc = "analyze"
    /\ ast \in ModModules
    /\ analysis = None
    /\ body_context = None
    /\ ir = None
    /\ cg = None
    /\ rust_code = None
    /\ result = None
    /\ input_file = Unused
    /\ output_file = Unused
    /\ source = Unused
    /\ stages = << >>
    /\ context = Unused
    /\ method = Unused

\* ownership_inference.analyze_module(&module)
AnalyzeItems ==
    /\ pc = "analyze"
    /\ analysis' = analyze_module(ast)
    /\ pc' = "lower"
    /\ UNCHANGED << input_file, output_file, source, ast, body_context, ir, cg,
                    rust_code, result, stages, context, method >>

\* A second generate_rust_code(&lowered, &mut ctx) with the context that the
\* first call has left behind; result holds its text.
EmitAgain ==
    /\ pc = "emitted"
    /\ LET g == generate_rust_code(ir.value, cg)
       IN  /\ cg' = g.ctx
           /\ result' = g.output
    /\ pc' = "emitted again"
    /\ UNCHANGED << input_file, output_file, source, ast, analysis, body_context,
                    ir, rust_code, stages, context, method >>

ModulesNext ==
    \/ AnalyzeItems
    \/ LowerModule
    \/ EmitWithAnalysis
    \/ EmitModule
    \/ EmitAgain

SpecModules == ModulesInit /\ [][ModulesNext]_vars

\* Whether a type is, or holds, a variant that lower_type has no arm for.
RECURSIVE UnsupportedType(_)
UnsupportedType(ty) ==
    CASE ty.kind = "Named" ->
            \E i \in 1..Len(ty.params) : UnsupportedType(ty.params[i])
      [] ty.kind = "Tuple" ->
            \E i \in 1..Len(ty.types) : UnsupportedType(ty.types[i])
      [] ty.kind = "Array" -> UnsupportedType(ty.inner)
      [] OTHER -> TRUE

\* Whether an expression is, or holds, the variant Try.
RECURSIVE UnsupportedExpr(_)
RECURSIVE UnsupportedStmt(_)
UnsupportedExpr(expr) ==
    CASE expr.kind = "Try" -> TRUE
      [] expr.kind = "Call" ->
            \/ UnsupportedExpr(expr.func)
            \/ \E i \in 1..Len(expr.args) : UnsupportedExpr(expr.args[i])
      [] expr.kind = "FieldAccess" -> UnsupportedExpr(expr.base)
      [] expr.kind = "Block" ->
            \E i \in 1..Len(expr.block.stmts) : UnsupportedStmt(expr.block.stmts[i])
      [] OTHER -> FALSE

\* Whether a statement is, or holds, a destructuring Let, a Try statement, an
\* unsupported type or an unsupported expression.
UnsupportedStmt(stmt) ==
    CASE stmt.kind = "Let" ->
            \/ stmt.pattern.kind # "Variable"
            \/ stmt.ty # None /\ UnsupportedType(stmt.ty)
            \/ UnsupportedExpr(stmt.value)
      [] stmt.kind = "Expr" -> UnsupportedExpr(stmt.expr)
      [] stmt.kind = "Return" -> stmt.expr # None /\ UnsupportedExpr(stmt.expr)
      [] stmt.kind = "If" ->
            \/ UnsupportedExpr(stmt.cond)
            \/ \E i \in 1..Len(stmt.then_branch.stmts) :
                  UnsupportedStmt(stmt.then_branch.stmts[i])
            \/ /\ stmt.else_branch # None
               /\ \E i \in 1..Len(stmt.else_branch.stmts) :
                     UnsupportedStmt(stmt.else_branch.stmts[i])
      [] stmt.kind \in {"While", "For"} ->
            \E i \in 1..Len(stmt.body.stmts) : UnsupportedStmt(stmt.body.stmts[i])
      [] stmt.kind = "Try" -> TRUE
      [] OTHER -> FALSE

UnsupportedItem(item) ==
    CASE item.kind = "Function" ->
            \/ \E i \in 1..Len(item.params) :
                  item.params[i].ty # None /\ UnsupportedType(item.params[i].ty)
            \/ item.ret_type # None /\ UnsupportedType(item.ret_type)
            \/ \E i \in 1..Len(item.body.stmts) : UnsupportedStmt(item.body.stmts[i])
      [] item.kind = "Data" ->
            \/ item.data_kind = "TaggedUnion"
            \/ /\ item.data_kind = "Struct"
               /\ \E i \in 1..Len(item.fields) : UnsupportedType(item.fields[i].ty)
      [] OTHER -> FALSE

\* C24: lower_module returns an error, and no IR, whenever the module holds a
\* destructuring Let, a TaggedUnion, or an unsupported type, statement or
\* expression in any position, a parameter type included.
C24_UnsupportedRejected ==
    ( /\ pc \notin {"analyze", "lower"}
      /\ \E i \in 1..Len(ast.items) : UnsupportedItem(ast.items[i]) )
    => ~IsOk(ir)

\* The functions whose bodies are one If, While, For or Match statement.
ControlFlowItems == {FnIf, FnWhile, FnFor, FnMatch}

\* The expression that heads a control-flow statement, source or lowered.
HeadExpr(stmt) ==
    CASE stmt.kind \in {"If", "While"} -> stmt.cond
      [] stmt.kind = "For" -> stmt.iterable
      [] stmt.kind = "Match" -> stmt.expr

\* The kinds of the statements of the first nested block, in their order.
FirstBlockKinds(stmt) ==
    CASE stmt.kind = "If" ->
            [i \in 1..Len(stmt.then_branch.stmts) |-> stmt.then_branch.stmts[i].kind]
      [] stmt.kind \in {"While", "For"} ->
            [i \in 1..Len(stmt.body.stmts) |-> stmt.body.stmts[i].kind]
      [] stmt.kind = "Match" -> [i \in 1..Len(stmt.arms) |-> "Arm"]

\* Whether the IR statement has the shape of the source statement: the same
\* variant, the lowered head expression, the nested statements in order.
LoweredStructurally(stmt, lowered) ==
    /\ lowered.kind = stmt.kind
    /\ HeadExpr(lowered) = [kind |-> "Variable", name |-> HeadExpr(stmt).name]
    /\ FirstBlockKinds(lowered) = FirstBlockKinds(stmt)

\* C25: a module of functions that hold an If, a While, a For or a Match
\* statement is lowered without an error, and each of these statements
\* becomes the IR statement of the same shape.
C25_ControlFlowLoweredStructurally ==
    ( /\ pc \notin {"analyze", "lower"}
      /\ \A i \in 1..Len(ast.items) : ast.items[i] \in ControlFlowItems )
    => /\ IsOk(ir)
       /\ Len(ir.value.items) = Len(ast.items)
       /\ \A i \in 1..Len(ast.items) :
             LoweredStructurally(ast.items[i].body.stmts[1],
                                 ir.value.items[i].body.stmts[1])

\* C27: a method call on a variable, v.push(1), is emitted as `v.push(1)`:
\* lowering and emission keep the method's name.
C27_MethodCallKeepsName ==
    ( /\ pc = "emitted"
      /\ \E i \in 1..Len(ast.items) : ast.items[i] = FnPush )
    => Contains(rust_code, "v.push(1)")

\* The context with which the emission that left cg behind was entered.
EntryContext ==
    IF cg.analysis_result = None THEN NewCodegenContext
    ELSE with_analysis(cg.analysis_result)

\* The text of one lowered item emitted on its own.
ItemText(item) == generate_rust_code([items |-> <<item>>], EntryContext).output

\* Whether a text has no empty line before its end.
EmptyLineOnlyAtEnd(text) ==
    \A k \in 1..(Len(text) - 2) : SubSeq(text, k, k + 1) # "\n\n"

RECURSIVE ItemTexts(_)
ItemTexts(items) ==
    IF items = << >> THEN ""
    ELSE ItemText(Head(items)) \o ItemTexts(Tail(items))

\* C26: the emitted text is the texts of the module's items in their order;
\* the text of an item ends in one empty line and has no other empty line;
\* a module without items gives the empty text, and the module that holds main
\* with one println gives the text of the example.
C26_ItemsSeparatedByBlankLine ==
    pc = "emitted" =>
        /\ rust_code = ItemTexts(ir.value.items)
        /\ \A i \in 1..Len(ir.value.items) :
              /\ EndsWith(ItemText(ir.value.items[i]), "}\n\n")
              /\ EmptyLineOnlyAtEnd(ItemText(ir.value.items[i]))
        /\ ir.value.items = << >> => rust_code = ""
        /\ ast.items = <<FnMain>> =>
              rust_code = "fn main() {\n    println!(\"Hello, World!\");\n}\n\n"

\* C26 witness: main followed by the struct S, one empty line after each
C26_Witness ==
    /\ pc = "emitted"
    /\ ast.items = <<FnMain, DataStruct>>
    /\ rust_code = "fn main() {\n    println!(\"Hello, World!\");\n}\n\n"
                   \o "struct S {\n    a: i32,\n}\n\n"

\* C28: generate_rust_code leaves the context as it found it: the indentation
\* level of entry, current_function None, the analysis result and the other
\* fields untouched; a second call with that context emits the text of the
\* first and leaves the context the same again.
C28_EmitterLeavesInputsAlone ==
    /\ pc = "emitted" =>
          /\ cg.indent_level = 0
          /\ cg.current_function = None
          /\ cg \in {NewCodegenContext, with_analysis(analysis)}
    /\ pc = "emitted again" =>
          /\ result = rust_code
          /\ cg \in {NewCodegenContext, with_analysis(analysis)}

\* C28 witness: a function with an if and an else and a struct were emitted
\* twice with the same context
C28_Witness ==
    /\ pc = "emitted again"
    /\ ast.items = <<FnIf, DataStruct>>
    /\ cg.analysis_result = analysis
    /\ result = rust_code
    /\ Contains(result, "    } else {\n        return;\n    }\n")

LifetimeNames == {"a", "b"}

\* The declared lifetime parameter list of the emitted signature: the text
\* between the function's name and `(`.
DeclaredLifetimesText(text) ==
    SubSeq(text, Len("fn " \o SigFunc.name) + 1, Find(text, "(", 1) - 1)

\* The parameters and the return type of the emitted signature: the text
\* from `(` up to the ` {` that opens the body.
SignatureTypesText(text) ==
    SubSeq(text, Find(text, "(", 1), Find(text, " {\n", 1) - 1)

\* C30: every lifetime written in a reference type of an emitted signature,
\* in a parameter or in the return type, nested references included, is in
\* the signature's declared lifetime parameter list.
C30_UsedLifetimesDeclared ==
    pc = "emitted" =>
        \A n \in LifetimeNames :
            Contains(SignatureTypesText(rust_code), "&'" \o n \o " ")
                => Contains(DeclaredLifetimesText(rust_code), "'" \o n)

====
